---- MODULE Spec2Model ----
(***************************************************************************)
(* Model of ion/processes/bootstrap/ooi_loader.py (class OOILoader): the   *)
(* attribute store _add_object_attribute, the category parsers built on    *)
(* it, and the post-processing passes.                                     *)
(*                                                                         *)
(* Python values are modelled as records [k, s, n, items]:                 *)
(*   k = "str"   a str, its text in s                                      *)
(*   k = "bool"  True (n = 1) or False (n = 0)                             *)
(*   k = "none"  None                                                      *)
(*   k = "list"  a list, its elements in items                             *)
(*   k = "float", k = "date": see below                                    *)
(* A dict is a function whose DOMAIN is the set of its keys.               *)
(***************************************************************************)
EXTENDS Integers, Sequences, FiniteSets, TLC

VARIABLES ooi_objects,    \* self.ooi_objects : type -> (id -> (attribute -> value))
          ooi_obj_attrs,  \* self.ooi_obj_attrs : type -> set of attribute names
          warnings,       \* self.warnings : sequence of (id, message) pairs
          call,           \* the operation performed last and its arguments
          raised,         \* the exception the last operation ended with, "" if it returned
          applied,        \* the store calls made so far, in order (kept by SpecOrder only)
          files,          \* the rows of each CSV file and mapping tab, by category
          pc,             \* where extract_ooi_assets is: "idle", "parse", a pass, "done", "aborted"
          cat,            \* index in Categories of the category being read
          pos,            \* index in its file of the row to read next
          child_devices,  \* self.child_devices : parent id -> sequence of child ids
          new_insts,      \* the clones collected by the node clone pass
          iteration,      \* the order in which the dicts of nodes and instruments iterate
          extracted,      \* self._extracted
          analysis,       \* what analyze_ooi_assets has left on self, <<>> before it has run
          resource_ds     \* the documents of the resources datastore, by id

engine ==
    <<files, pc, cat, pos, child_devices, new_insts, iteration, extracted, analysis, resource_ds>>

vars == <<ooi_objects, ooi_obj_attrs, warnings, call, raised, applied, engine>>

(***************************************************************************)
(* Bounds                                                                  *)
(***************************************************************************)
MaxWarnings == 2
MaxWrites == 3

(***************************************************************************)
(* Values                                                                  *)
(***************************************************************************)
Str(s) == [k |-> "str", s |-> s, n |-> 0, items |-> <<>>]
Bool(b) == [k |-> "bool", s |-> "", n |-> IF b THEN 1 ELSE 0, items |-> <<>>]
None == [k |-> "none", s |-> "", n |-> 0, items |-> <<>>]
List(q) == [k |-> "list", s |-> "", n |-> 0, items |-> q]

\* Python truth value of a value: None, False, "" and [] are false.
Truthy(v) ==
    CASE v.k = "str" -> v.s # ""
      [] v.k = "bool" -> v.n = 1
      [] v.k = "none" -> FALSE
      [] v.k = "list" -> v.items # <<>>
      [] v.k = "float" -> v.n # 0
      [] OTHER -> TRUE

(***************************************************************************)
(* str operations. A str is a TLA+ string.                                 *)
(***************************************************************************)
Upper == "ABCDEFGHIJKLMNOPQRSTUVWXYZ"

Digits == "0123456789"

Char(s, i) == SubSeq(s, i, i)

\* The rank of a character among those the model's texts are made of, in
\* ascending order of their code points.
CharRank(c) ==
    LET Chars == " (),-.0123456789ABCDEFGHIJKLMNOPQRSTUVWXYZ_abcdefghijklmnopqrstuvwxyz"
    IN CHOOSE i \in 1..Len(Chars) : Char(Chars, i) = c

\* Every character of s is one of set.
AllIn(s, set) == \A i \in 1..Len(s) : \E j \in 1..Len(set) : Char(s, i) = Char(set, j)

\* s[i:j] of Python for 0 <= i, 0 <= j.
Slice(s, i, j) ==
    LET hi == IF j < Len(s) THEN j ELSE Len(s) IN
    IF i >= hi THEN "" ELSE SubSeq(s, i + 1, hi)

\* s[i:]
SliceFrom(s, i) == Slice(s, i, Len(s))

\* a < b for two str: lexicographic by code point.
RECURSIVE StrLess(_, _)
StrLess(a, b) ==
    IF b = "" THEN FALSE
    ELSE IF a = "" THEN TRUE
    ELSE IF Char(a, 1) = Char(b, 1) THEN StrLess(SliceFrom(a, 1), SliceFrom(b, 1))
    ELSE CharRank(Char(a, 1)) < CharRank(Char(b, 1))

\* s.strip(): leading and trailing blanks removed.
Strip(s) ==
    LET RECURSIVE LStrip(_), RStrip(_)
        LStrip(t) == IF t # "" /\ Char(t, 1) = " " THEN LStrip(SliceFrom(t, 1)) ELSE t
        RStrip(t) ==
            IF t # "" /\ Char(t, Len(t)) = " " THEN RStrip(Slice(t, 0, Len(t) - 1)) ELSE t
    IN RStrip(LStrip(s))

\* The value of a text of decimal digits.
RECURSIVE ParseNat(_)
ParseNat(s) ==
    IF s = "" THEN 0
    ELSE 10 * ParseNat(Slice(s, 0, Len(s) - 1)) + (CharRank(Char(s, Len(s))) - CharRank("0"))

\* The position of the first c in s, 0 if there is none.
Find(s, c) ==
    IF \E i \in 1..Len(s) : Char(s, i) = c
    THEN CHOOSE i \in 1..Len(s) : Char(s, i) = c /\ \A j \in 1..(i - 1) : Char(s, j) # c
    ELSE 0

\* a < b for two values of a list being sorted; the lists the engine sorts
\* hold str.
ValueLess(a, b) == StrLess(a.s, b.s)

RECURSIVE InsertSorted(_, _)
InsertSorted(q, v) ==
    IF q = <<>> THEN <<v>>
    ELSE IF ValueLess(v, Head(q)) THEN <<v>> \o q
         ELSE <<Head(q)>> \o InsertSorted(Tail(q), v)

\* list.sort(): a stable ascending sort of the whole list.
RECURSIVE SortList(_)
SortList(q) ==
    IF q = <<>> THEN <<>>
    ELSE InsertSorted(SortList(SubSeq(q, 1, Len(q) - 1)), q[Len(q)])

Range(q) == {q[i] : i \in 1..Len(q)}

\* "a in b" for two str: a is a substring of b.
StrContains(b, a) ==
    a = "" \/ \E i \in 0..(Len(b) - Len(a)) : Slice(b, i, i + Len(a)) = a

(***************************************************************************)
(* float                                                                   *)
(*                                                                         *)
(* A float is kept as sign and magnitude in thousandths (k = "float",      *)
(* s = "-" when negative, n = magnitude * 1000): the texts of the model    *)
(* carry at most three decimals, where float() and str() are exact.        *)
(***************************************************************************)
Float(neg, mag) == [k |-> "float", s |-> IF neg THEN "-" ELSE "", n |-> mag, items |-> <<>>]

\* float(s) for the texts of an optional sign, digits, and an optional point
\* with digits, with one digit at least; anything else raises ValueError.
\* [ok, value].
FloatText(s) ==
    LET Unsigned(t) == IF t # "" /\ Char(t, 1) \in {"-", "+"} THEN SliceFrom(t, 1) ELSE t
        IntPart(t) == IF Find(t, ".") = 0 THEN t ELSE Slice(t, 0, Find(t, ".") - 1)
        FracPart(t) == IF Find(t, ".") = 0 THEN "" ELSE SliceFrom(t, Find(t, "."))
        Check(ip, fp) == AllIn(ip, Digits) /\ AllIn(fp, Digits) /\ Len(ip) + Len(fp) > 0
        Value(neg, ip, fp) ==
            IF Check(ip, fp)
            THEN Float(neg, 1000 * ParseNat(ip) + ParseNat(Slice(fp \o "000", 0, 3)))
            ELSE None
        Parts(t, body) ==
            [ok |-> Check(IntPart(body), FracPart(body)),
             value |-> Value(t # "" /\ Char(t, 1) = "-", IntPart(body), FracPart(body))]
    IN Parts(Strip(s), Unsigned(Strip(s)))

IsFloatText(s) == FloatText(s).ok

ParseFloat(s) == FloatText(s).value

\* str(f): the decimals are the thousandths without trailing zeros.
FloatRepr(f) ==
    LET Padded(m) == (IF m < 10 THEN "00" ELSE IF m < 100 THEN "0" ELSE "") \o ToString(m)
        FracText(m) ==
            IF m = 0 THEN "0"
            ELSE IF m % 100 = 0 THEN Slice(Padded(m), 0, 1)
            ELSE IF m % 10 = 0 THEN Slice(Padded(m), 0, 2)
            ELSE Padded(m)
    IN f.s \o ToString(f.n \div 1000) \o "." \o FracText(f.n % 1000)

\* -1 * f
FloatNeg(f) == Float(f.s = "", f.n)

(***************************************************************************)
(* datetime                                                                *)
(*                                                                         *)
(* A datetime at midnight is kept as k = "date", n = year*10000 +          *)
(* month*100 + day.                                                        *)
(***************************************************************************)
Date(y, m, d) == [k |-> "date", s |-> "", n |-> y * 10000 + m * 100 + d, items |-> <<>>]

DEFAULT_MAX_DATE == Date(2020, 1, 1)

\* datetime.strptime(s, fmt) for the formats %Y-%m-%d, %Y-%m and %Y tried in
\* this order: [ok, date]. A month or day is a field of one or two digits.
StrpTime(s) ==
    LET DaysIn(y, m) ==
            IF m \in {4, 6, 9, 11} THEN 30
            ELSE IF m = 2 THEN (IF y % 4 = 0 /\ (y % 100 # 0 \/ y % 400 = 0) THEN 29 ELSE 28)
            ELSE 31
        IsField(t) == Len(t) \in {1, 2} /\ AllIn(t, Digits)
        Before(t) == IF Find(t, "-") = 0 THEN t ELSE Slice(t, 0, Find(t, "-") - 1)
        After(t) == IF Find(t, "-") = 0 THEN "" ELSE SliceFrom(t, Find(t, "-"))
        Day(y, m, ds) ==
            IF IsField(ds) /\ ParseNat(ds) \in 1..DaysIn(y, m)
            THEN [ok |-> TRUE, date |-> Date(y, m, ParseNat(ds))]
            ELSE [ok |-> FALSE, date |-> None]
        Month(y, ms, dashes, ds) ==
            IF ~(IsField(ms) /\ ParseNat(ms) \in 1..12) THEN [ok |-> FALSE, date |-> None]
            ELSE IF dashes THEN Day(y, ParseNat(ms), ds)
            ELSE [ok |-> TRUE, date |-> Date(y, ParseNat(ms), 1)]
        Year(ys, dashes, rest) ==
            IF ~(Len(ys) = 4 /\ AllIn(ys, Digits) /\ ParseNat(ys) >= 1)
            THEN [ok |-> FALSE, date |-> None]
            ELSE IF dashes THEN Month(ParseNat(ys), Before(rest), Find(rest, "-") # 0, After(rest))
            ELSE [ok |-> TRUE, date |-> Date(ParseNat(ys), 1, 1)]
    IN Year(Before(s), Find(s, "-") # 0, After(s))

\* self._parse_date(v, default) for a value v (a str, None or a datetime) and
\* a default that is a datetime: strptime raises on anything but a matching
\* str and the exception is swallowed.
ParseDate(v, default) ==
    IF v.k = "str" /\ StrpTime(v.s).ok THEN StrpTime(v.s).date ELSE default

(***************************************************************************)
(* The reference designator decomposer (ion.core.ooiref)                   *)
(*                                                                         *)
(* An asset designator is AASS (site), AASSXXXX (subsite),                 *)
(* AASSXXXX-NNNNN (node), ...-PP (port), ...-IIIIISNNN (instrument); an    *)
(* instrument class has five characters, a series six, a data product with *)
(* level is XXXXXXX_Ld.                                                    *)
(***************************************************************************)
UpperDigits == Upper \o Digits

\* What a designator names: "array", "site", "subsite", "node", "port",
\* "instrument", "class", "series", "dataproduct", or "" when it is none.
RdKind(s) ==
    LET IsArrayRd(t) == Len(t) = 2 /\ AllIn(t, Upper)
        IsSiteRd(t) == Len(t) = 4 /\ IsArrayRd(Slice(t, 0, 2)) /\ AllIn(Slice(t, 2, 4), Digits)
        IsSubsiteRd(t) ==
            Len(t) = 8 /\ IsSiteRd(Slice(t, 0, 4)) /\ AllIn(Slice(t, 4, 8), UpperDigits)
        IsNodeRd(t) ==
            Len(t) = 14 /\ IsSubsiteRd(Slice(t, 0, 8)) /\ Char(t, 9) = "-"
            /\ AllIn(Slice(t, 9, 14), UpperDigits)
        IsPortRd(t) ==
            Len(t) = 17 /\ IsNodeRd(Slice(t, 0, 14)) /\ Char(t, 15) = "-"
            /\ AllIn(Slice(t, 15, 17), Digits)
        IsInstrumentRd(t) ==
            Len(t) = 27 /\ IsPortRd(Slice(t, 0, 17)) /\ Char(t, 18) = "-"
            /\ AllIn(Slice(t, 18, 27), UpperDigits)
        IsDataProductRd(t) ==
            Len(t) = 10 /\ AllIn(Slice(t, 0, 7), UpperDigits \o "_") /\ Slice(t, 7, 9) = "_L"
            /\ AllIn(Char(t, 10), Digits)
    IN IF IsArrayRd(s) THEN "array"
       ELSE IF IsSiteRd(s) THEN "site"
       ELSE IF IsSubsiteRd(s) THEN "subsite"
       ELSE IF IsNodeRd(s) THEN "node"
       ELSE IF IsPortRd(s) THEN "port"
       ELSE IF IsInstrumentRd(s) THEN "instrument"
       ELSE IF Len(s) = 5 /\ AllIn(s, UpperDigits) THEN "class"
       ELSE IF Len(s) = 6 /\ AllIn(s, UpperDigits) THEN "series"
       ELSE IF IsDataProductRd(s) THEN "dataproduct"
       ELSE ""

\* The fields the engine reads of the designator s, which names a kind.
RdFields(s, kind) ==
    LET asset == kind \in {"array", "site", "subsite", "node", "port", "instrument"}
        deep == kind \in {"node", "port", "instrument"}
    IN [rd |-> s,
        error |-> kind = "",
        rd_type |-> IF asset THEN "asset"
                    ELSE IF kind = "class" THEN "inst_class"
                    ELSE IF kind = "series" THEN "inst_series"
                    ELSE kind,
        rd_subtype |-> IF asset THEN kind ELSE IF kind = "dataproduct" THEN "level" ELSE "",
        array |-> IF asset THEN Slice(s, 0, 2) ELSE "",
        site_rd |-> IF asset /\ kind # "array" THEN Slice(s, 0, 4) ELSE "",
        subsite_rd |-> IF asset /\ Len(s) >= 8 THEN Slice(s, 0, 8) ELSE "",
        node_type |-> IF deep THEN Slice(s, 9, 11) ELSE "",
        node_rd |-> IF deep THEN Slice(s, 0, 14) ELSE "",
        port_rd |-> IF kind \in {"port", "instrument"} THEN Slice(s, 0, 17) ELSE "",
        inst_class |-> IF kind = "instrument" THEN Slice(s, 18, 23)
                       ELSE IF kind \in {"class", "series"} THEN Slice(s, 0, 5) ELSE "",
        series_rd |-> IF kind = "instrument" THEN Slice(s, 18, 24)
                      ELSE IF kind = "series" THEN s ELSE ""]

\* OOIReferenceDesignator(s)
OOIReferenceDesignator(s) == RdFields(s, RdKind(s))

(***************************************************************************)
(* re.match('^([A-Z0-9_]{7})\s+\((L\d)\)$', s): seven characters, blanks,  *)
(* and the level in parentheses. [ok, dp_type, dp_level].                  *)
(***************************************************************************)
MatchDataProductWithLevel(s) ==
    LET n == Len(s)
        ok == /\ n >= 12
              /\ AllIn(Slice(s, 0, 7), UpperDigits \o "_")
              /\ AllIn(Slice(s, 7, n - 4), " ")
              /\ Slice(s, n - 4, n - 2) = "(L"
              /\ AllIn(Char(s, n - 1), Digits)
              /\ Char(s, n) = ")"
    IN [ok |-> ok,
        dp_type |-> IF ok THEN Slice(s, 0, 7) ELSE "",
        dp_level |-> IF ok THEN Slice(s, n - 3, n - 1) ELSE ""]

(***************************************************************************)
(* dict helpers                                                            *)
(***************************************************************************)
\* d[key] = val, keeping the other entries.
DictSet(d, key, val) == [x \in (DOMAIN d) \cup {key} |-> IF x = key THEN val ELSE d[x]]

\* mapping.get(key, key); mapping None is the empty dict.
MapKey(mapping, key) == IF key \in DOMAIN mapping THEN mapping[key] ELSE key

\* One entry (objid, msg) of self.warnings; msg is kept as the values the
\* message text is formatted from.
Warning(objid, kind, objtype, key, old, new) ==
    [id |-> objid, kind |-> kind, objtype |-> objtype, key |-> key, old |-> old, new |-> new]

(***************************************************************************)
(* The attribute store: _add_object_attribute                              *)
(*                                                                         *)
(* A store state st is [objs, attrs, warns]; the arguments a are           *)
(* [objtype, objid, key, value, value_is_list, list_dup_ok, change_ok,     *)
(*  list_sort, mapping, kwargs, korder]. objid "" stands for an empty or   *)
(* absent id, key "" for key None, mapping EmptyMapping for mapping None;  *)
(* korder is the order kwargs.iteritems() yields the static attributes.    *)
(* The result is the store state after the call with exc, the exception    *)
(* raised ("" when the call returns).                                      *)
(***************************************************************************)
EmptyMapping == [x \in {} |-> ""]

Result(objs, attrs, warns, exc) == [objs |-> objs, attrs |-> attrs, warns |-> warns, exc |-> exc]

\* ListWrite without the membership test: every value is appended.
ListWriteAlwaysAppend(obj, warns, a, key) ==
    IF key \in DOMAIN obj /\ obj[key].k = "list"
    THEN LET appended == Append(obj[key].items, a.value) IN
         [obj |-> DictSet(obj, key, List(IF a.list_sort THEN SortList(appended) ELSE appended)),
          warns |-> warns, exc |-> ""]
    ELSE IF key \in DOMAIN obj THEN [obj |-> obj, warns |-> warns, exc |-> "AttributeError"]
    ELSE [obj |-> DictSet(obj, key, List(<<a.value>>)), warns |-> warns, exc |-> ""]

\* ListWrite without the sort after an append.
ListWriteNoSort(obj, warns, a, key) ==
    IF key \in DOMAIN obj /\ obj[key].k = "list"
    THEN IF a.value \in Range(obj[key].items)
         THEN [obj |-> obj,
               warns |-> IF a.list_dup_ok THEN warns
                         ELSE Append(warns, Warning(a.objid, "duplicate_attr_list_value",
                                                    a.objtype, key, None, a.value)),
               exc |-> ""]
         ELSE [obj |-> DictSet(obj, key, List(Append(obj[key].items, a.value))),
               warns |-> warns, exc |-> ""]
    ELSE IF key \in DOMAIN obj THEN [obj |-> obj, warns |-> warns, exc |-> "AttributeError"]
    ELSE [obj |-> DictSet(obj, key, List(<<a.value>>)), warns |-> warns, exc |-> ""]

\* The key/value part with value_is_list (lines 168-179) on the object entry:
\* [obj, warns, exc].
ListWrite(obj, warns, a, key) ==
    IF key \in DOMAIN obj
    THEN LET old == obj[key] IN
         CASE old.k = "list" ->
                IF a.value \in Range(old.items)
                THEN [obj |-> obj,
                      warns |-> IF a.list_dup_ok THEN warns
                                ELSE Append(warns, Warning(a.objid, "duplicate_attr_list_value",
                                                           a.objtype, key, None, a.value)),
                      exc |-> ""]
                ELSE LET appended == Append(old.items, a.value) IN
                     [obj |-> DictSet(obj, key, List(IF a.list_sort THEN SortList(appended)
                                                     ELSE appended)),
                      warns |-> warns, exc |-> ""]
           [] old.k = "str" /\ a.value.k = "str" ->
                \* "value in text" is a substring test; a str has no append
                IF StrContains(old.s, a.value.s)
                THEN [obj |-> obj,
                      warns |-> IF a.list_dup_ok THEN warns
                                ELSE Append(warns, Warning(a.objid, "duplicate_attr_list_value",
                                                           a.objtype, key, None, a.value)),
                      exc |-> ""]
                ELSE [obj |-> obj, warns |-> warns, exc |-> "AttributeError"]
           [] OTHER -> [obj |-> obj, warns |-> warns, exc |-> "TypeError"]
    ELSE [obj |-> DictSet(obj, key, List(<<a.value>>)), warns |-> warns, exc |-> ""]

\* ScalarWrite with an equal value treated as a silent no-op.
ScalarWriteSilentEqual(obj, warns, a, key) ==
    IF key \in DOMAIN obj /\ obj[key] # a.value /\ ~a.change_ok
    THEN [obj |-> obj,
          warns |-> Append(warns, Warning(a.objid, "duplicate_attr", a.objtype, key,
                                          obj[key], a.value)),
          exc |-> ""]
    ELSE [obj |-> DictSet(obj, key, a.value), warns |-> warns, exc |-> ""]

\* ScalarWrite with the last writer winning, whatever change_ok is.
ScalarWriteLastWins(obj, warns, a, key) ==
    [obj |-> DictSet(obj, key, a.value), warns |-> warns, exc |-> ""]

\* The key/value part without value_is_list (lines 180-184).
ScalarWrite(obj, warns, a, key) ==
    IF key \in DOMAIN obj /\ ~a.change_ok
    THEN [obj |-> obj,
          warns |-> Append(warns, Warning(a.objid, "duplicate_attr", a.objtype, key,
                                          obj[key], a.value)),
          exc |-> ""]
    ELSE [obj |-> DictSet(obj, key, a.value), warns |-> warns, exc |-> ""]

\* StaticWrite warning on every second write without change_ok, equal or not.
StaticWriteNoCompare(obj, warns, a, okey, oval) ==
    IF okey \in DOMAIN obj /\ ~a.change_ok
    THEN [obj |-> obj,
          warns |-> Append(warns, Warning(a.objid, "different_static_attr", a.objtype, okey,
                                          obj[okey], oval))]
    ELSE [obj |-> DictSet(obj, okey, oval), warns |-> warns]

\* One static attribute okey=oval of kwargs (lines 187-192): [obj, warns].
StaticWrite(obj, warns, a, okey, oval) ==
    IF okey \in DOMAIN obj /\ obj[okey] # oval /\ ~a.change_ok
    THEN [obj |-> obj,
          warns |-> Append(warns, Warning(a.objid, "different_static_attr", a.objtype, okey,
                                          obj[okey], oval))]
    ELSE [obj |-> DictSet(obj, okey, oval), warns |-> warns]

\* The loop over kwargs.iteritems() (lines 186-193), names in the order korder:
\* [obj, warns, names], names being the attribute names added to the registry.
RECURSIVE StaticWrites(_, _, _, _)
StaticWrites(obj, warns, a, korder) ==
    IF korder = <<>> THEN [obj |-> obj, warns |-> warns, names |-> {}]
    ELSE LET okey == MapKey(a.mapping, Head(korder))
             one == StaticWrite(obj, warns, a, okey, a.kwargs[Head(korder)])
             rest == StaticWrites(one.obj, one.warns, a, Tail(korder))
         IN [obj |-> rest.obj, warns |-> rest.warns, names |-> {okey} \cup rest.names]

\* AddObjectAttribute with the type's dicts created before the id is checked.
AddObjectAttributeLateCheck(st, a) ==
    Result(IF a.objtype \in DOMAIN st.objs THEN st.objs ELSE DictSet(st.objs, a.objtype, <<>>),
           IF a.objtype \in DOMAIN st.attrs THEN st.attrs ELSE DictSet(st.attrs, a.objtype, {}),
           st.warns, IF a.objid = "" THEN "Exception" ELSE "")

AddObjectAttribute(st, a) ==
    IF a.objid = "" THEN Result(st.objs, st.attrs, st.warns, "Exception")
    ELSE
    LET ot_objects == IF a.objtype \in DOMAIN st.objs THEN st.objs[a.objtype] ELSE <<>>
        ot_obj_attrs == IF a.objtype \in DOMAIN st.attrs THEN st.attrs[a.objtype] ELSE {}
        obj_entry == IF a.objid \in DOMAIN ot_objects THEN ot_objects[a.objid]
                     ELSE [x \in {"id"} |-> Str(a.objid)]
        key == MapKey(a.mapping, a.key)
        keyed == IF a.key = "" THEN [obj |-> obj_entry, warns |-> st.warns, exc |-> ""]
                 ELSE IF a.value_is_list THEN ListWrite(obj_entry, st.warns, a, key)
                 ELSE ScalarWrite(obj_entry, st.warns, a, key)
        attrs1 == IF a.key = "" THEN ot_obj_attrs ELSE ot_obj_attrs \cup {key}
        static == StaticWrites(keyed.obj, keyed.warns, a, a.korder)
    IN IF keyed.exc # ""
       THEN Result(DictSet(st.objs, a.objtype, DictSet(ot_objects, a.objid, keyed.obj)),
                   DictSet(st.attrs, a.objtype, ot_obj_attrs), keyed.warns, keyed.exc)
       ELSE Result(DictSet(st.objs, a.objtype, DictSet(ot_objects, a.objid, static.obj)),
                   DictSet(st.attrs, a.objtype, attrs1 \cup static.names), static.warns, "")

(***************************************************************************)
(* Calls of the store as the parsers make them. A parser takes the store   *)
(* state st and a row (a dict from column names to str) and gives the      *)
(* store state after the row with exc; a call that raises ends the parser. *)
(* The static attributes are written in the order of the call's keywords.  *)
(***************************************************************************)
\* The arguments of one call.
Args(objtype, objid, key, value, value_is_list, list_dup_ok, change_ok, list_sort, mapping, kwargs, korder) ==
    [objtype |-> objtype, objid |-> objid, key |-> key, value |-> value,
     value_is_list |-> value_is_list, list_dup_ok |-> list_dup_ok, change_ok |-> change_ok,
     list_sort |-> list_sort, mapping |-> mapping, kwargs |-> kwargs, korder |-> korder]

AsStore(r) == [objs |-> r.objs, attrs |-> r.attrs, warns |-> r.warns]

Ok(st) == Result(st.objs, st.attrs, st.warns, "")

Raise(st, exc) == Result(st.objs, st.attrs, st.warns, exc)

Then(r, a) == IF r.exc # "" THEN r ELSE AddObjectAttribute(AsStore(r), a)

\* self.warnings.append((rd, "invalid_rd: ..."))
InvalidRd(st, objid, objtype, rd) ==
    Result(st.objs, st.attrs,
           Append(st.warns, Warning(objid, "invalid_rd", objtype, "", None, Str(rd))), "")

\* _add_object_attribute(objtype, objid, key, value, mapping=mapping, **kwargs)
Attr(objtype, objid, key, value, mapping, kwargs, korder) ==
    Args(objtype, objid, key, Str(value), FALSE, FALSE, FALSE, TRUE, mapping, kwargs, korder)

\* _add_object_attribute(objtype, objid, None, None, change_ok=change_ok, **kwargs)
Static(objtype, objid, change_ok, kwargs, korder) ==
    Args(objtype, objid, "", None, FALSE, FALSE, change_ok, TRUE, EmptyMapping, kwargs, korder)

\* _add_object_attribute(objtype, objid, key, value, value_is_list=True, ...)
ListAttr(objtype, objid, key, value, list_dup_ok, list_sort) ==
    Args(objtype, objid, key, value, TRUE, list_dup_ok, FALSE, list_sort, EmptyMapping,
         <<>>, <<>>)

HasObject(objs, objtype, objid) == objtype \in DOMAIN objs /\ objid \in DOMAIN objs[objtype]

HasAttr(objs, objtype, objid, key) ==
    HasObject(objs, objtype, objid) /\ key \in DOMAIN objs[objtype][objid]

\* self.get_type_assets(objtype)
get_type_assets(objs, objtype) == IF objtype \in DOMAIN objs THEN objs[objtype] ELSE <<>>

\* if cond: self._add_object_attribute(...)
When(cond, r, a) == IF cond THEN Then(r, a) ELSE r

\* if objid in self.get_type_assets(objtype): self._add_object_attribute(...)
WhenHas(cond, r, objtype, objid, a) ==
    IF cond /\ r.exc = "" /\ objid \in DOMAIN get_type_assets(r.objs, objtype)
    THEN Then(r, a)
    ELSE r

(***************************************************************************)
(* The parsers of the decomposed attribute reports                         *)
(***************************************************************************)
\* The value a longitude row is stored with: str(-1 * float(value)).
NegatedLongitude(value) == FloatRepr(FloatNeg(ParseFloat(value)))

_parse_NodeTypes(st, row) ==
    Then(Ok(st), Args("nodetype", row.LNodeType, "", None, FALSE, FALSE, FALSE, TRUE,
                      "Name" :> "name", "Name" :> Str(row.Name), <<"Name">>))

_parse_AttributeReportArrays(st, row) ==
    LET ooi_rd == OOIReferenceDesignator(row.Array) IN
    IF ooi_rd.error \/ ooi_rd.rd_type # "asset" \/ ooi_rd.rd_subtype # "array"
    THEN InvalidRd(st, ooi_rd.rd, "array", ooi_rd.rd)
    ELSE Then(Ok(st), Attr("array", ooi_rd.rd, row.Attribute, row.AttributeValue,
                           "Array_Name" :> "name",
                           "Array_Name" :> Str(row.Array_Name), <<"Array_Name">>))

_parse_AttributeReportClass(st, row) ==
    LET ooi_rd == OOIReferenceDesignator(row.Class) IN
    IF ooi_rd.error \/ ooi_rd.rd_type # "inst_class"
    THEN InvalidRd(st, ooi_rd.rd, "class", ooi_rd.rd)
    ELSE Then(Ok(st), Attr("class", ooi_rd.rd, row.Attribute, row.AttributeValue,
                           "Description" :> "description"
                               @@ "Alternate Instrument Class Name" :> "alt_name",
                           "name" :> Str(row.Class_Name), <<"name">>))

_parse_AttributeReportDataProducts(st, row) ==
    LET key == Strip(row.Data_Product_Identifier) \o "_L" \o Strip(row.Data_Product_Level)
        ooi_rd == OOIReferenceDesignator(key)
    IN IF ooi_rd.error \/ ooi_rd.rd_type # "dataproduct" \/ ooi_rd.rd_subtype # "level"
       THEN InvalidRd(st, ooi_rd.rd, "data_product_type", ooi_rd.rd)
       ELSE Then(Ok(st), Attr("data_product_type", row.Data_Product_Identifier, row.Attribute,
                              row.AttributeValue, "Regime(s)" :> "regime",
                              "Data_Product_Name" :> Str(row.Data_Product_Name)
                                  @@ "Data_Product_Level" :> Str(row.Data_Product_Level),
                              <<"Data_Product_Name", "Data_Product_Level">>))

_parse_AttributeReportFamilies(st, row) ==
    Then(Ok(st), Attr("family", row.Family, row.Attribute, row.AttributeValue, <<>>,
                      "name" :> Str(row.Family_Name), <<"name">>))

_parse_AttributeReportMakeModel(st, row) ==
    Then(Ok(st), Attr("makemodel", row.Make_Model, row.Attribute, row.Attribute_Value, <<>>,
                      "name" :> Str(row.Make_Model)
                          @@ "Manufacturer" :> Str(row.Manufacturer)
                          @@ "Make_Model_Description" :> Str(row.Make_Model_Description),
                      <<"name", "Manufacturer", "Make_Model_Description">>))

_parse_AttributeReportNodes(st, row) ==
    LET ooi_rd == OOIReferenceDesignator(row.Node)
        negate == row.Attribute = "longitude" /\ row.AttributeValue # ""
    IN IF ooi_rd.error \/ ooi_rd.rd_type # "asset" \/ ooi_rd.rd_subtype # "node"
       THEN InvalidRd(st, ooi_rd.rd, "node", ooi_rd.rd)
       ELSE IF negate /\ ~IsFloatText(row.AttributeValue) THEN Raise(st, "ValueError")
       ELSE Then(Ok(st), Attr("node", ooi_rd.rd, row.Attribute,
                              IF negate THEN NegatedLongitude(row.AttributeValue)
                              ELSE row.AttributeValue,
                              <<>>,
                              "Node_Type" :> Str(row.Node_Type)
                                  @@ "Node_Site_Sequence" :> Str(row.Node_Site_Sequence),
                              <<"Node_Type", "Node_Site_Sequence">>))

_parse_AttributeReportPorts(st, row) ==
    LET ooi_rd == OOIReferenceDesignator(row.Port) IN
    IF ooi_rd.error \/ ooi_rd.rd_type # "asset" \/ ooi_rd.rd_subtype # "port"
    THEN InvalidRd(st, ooi_rd.rd, "port", ooi_rd.rd)
    ELSE Then(Ok(st), Attr("port", ooi_rd.rd, row.Attribute, row.AttributeValue, <<>>,
                           <<>>, <<>>))

_parse_AttributeReportReferenceDesignator(st, row) ==
    LET ooi_rd == OOIReferenceDesignator(row.Reference_Designator)
        negate == row.Attribute = "longitude" /\ row.AttributeValue # ""
    IN IF ooi_rd.error \/ ooi_rd.rd_type # "asset" \/ ooi_rd.rd_subtype # "instrument"
       THEN InvalidRd(st, ooi_rd.rd, "instrument", ooi_rd.rd)
       ELSE IF negate /\ ~IsFloatText(row.AttributeValue) THEN Raise(st, "ValueError")
       ELSE Then(Ok(st), Attr("instrument", ooi_rd.rd, row.Attribute,
                              IF negate THEN NegatedLongitude(row.AttributeValue)
                              ELSE row.AttributeValue,
                              <<>>, "Class" :> Str(row.Class), <<"Class">>))

_parse_AttributeReportSeries(st, row) ==
    Then(Ok(st), Attr("series", row.Class \o row.Series, row.Attribute, row.AttributeValue,
                      "Description" :> "description",
                      "Series" :> Str(row.Series) @@ "name" :> Str(row.Series_Name)
                          @@ "Class" :> Str(row.Class),
                      <<"Series", "name", "Class">>))

_parse_AttributeReportSites(st, row) ==
    LET ooi_rd == OOIReferenceDesignator(row.Site) IN
    IF ooi_rd.error \/ ooi_rd.rd_type # "asset" \/ ooi_rd.rd_subtype # "site"
    THEN InvalidRd(st, ooi_rd.rd, "site", ooi_rd.rd)
    ELSE Then(Ok(st), Attr("site", ooi_rd.rd, row.Attribute, row.AttributeValue, EmptyMapping,
                           "name" :> Str(row.Site_Name), <<"name">>))

_parse_AttributeReportSubseries(st, row) ==
    Then(Ok(st), Attr("subseries", row.Class \o row.Series \o row.Subseries, row.Attribute,
                      row.AttributeValue, "Description" :> "description",
                      "Subseries" :> Str(row.Subseries) @@ "name" :> Str(row.Subseries_Name)
                          @@ "Class" :> Str(row.Class),
                      <<"Subseries", "name", "Class">>))

_parse_AttributeReportSubsites(st, row) ==
    LET ooi_rd == OOIReferenceDesignator(row.Subsite)
        negate == row.Attribute = "longitude" /\ row.AttributeValue # ""
    IN IF ooi_rd.error \/ ooi_rd.rd_type # "asset" \/ ooi_rd.rd_subtype # "subsite"
       THEN InvalidRd(st, ooi_rd.rd, "subsite", ooi_rd.rd)
       ELSE IF negate /\ ~IsFloatText(row.AttributeValue) THEN Raise(st, "ValueError")
       ELSE Then(Ok(st), Attr("subsite", ooi_rd.rd, row.Attribute,
                              IF negate THEN NegatedLongitude(row.AttributeValue)
                              ELSE row.AttributeValue,
                              EmptyMapping, "name" :> Str(row.Subsite_Name), <<"name">>))

(***************************************************************************)
(* The parsers of the aggregate reports                                    *)
(***************************************************************************)
_parse_InstrumentCatalogFull(st, row) ==
    LET refid == row.ReferenceDesignator
        series_id == row.SClass_PublicID \o row.SSeries_PublicID
        subseries_id == series_id \o row.SSubseries_PublicID
        makemodel == row.MMInstrument_PublicID
        entry == "instrument_class" :> Str(row.SClass_PublicID)
                 @@ "instrument_series" :> Str(row.SSeries_PublicID)
                 @@ "instrument_subseries" :> Str(row.SSubseries_PublicID)
                 @@ "instrument_model1" :> Str(row.SClass_PublicID)
                 @@ "instrument_model" :> Str(series_id)
                 @@ "makemodel" :> Str(makemodel)
                 @@ "ready_for_2013" :> Str(row.Ready_For_2013_)
        r1 == Then(Ok(st), Static("instrument", refid, FALSE, entry,
                                  <<"instrument_class", "instrument_series",
                                    "instrument_subseries", "instrument_model1",
                                    "instrument_model", "makemodel", "ready_for_2013">>))
        r2 == IF makemodel = "" THEN r1
              ELSE Then(Then(Then(r1,
                     ListAttr("class", row.SClass_PublicID, "makemodel", Str(makemodel),
                              TRUE, TRUE)),
                     Static("series", series_id, FALSE, "makemodel" :> Str(makemodel),
                            <<"makemodel">>)),
                     Static("subseries", subseries_id, FALSE, "makemodel" :> Str(makemodel),
                            <<"makemodel">>))
        ntype_id == Slice(row.Textbox11, 0, 2)
        array == Str(Slice(refid, 0, 2))
    IN Then(Then(Then(r2,
           ListAttr("nodetype", ntype_id, "array_list", array, TRUE, TRUE)),
           ListAttr("class", row.SClass_PublicID, "array_list", array, TRUE, TRUE)),
           ListAttr("series", series_id, "array_list", array, TRUE, TRUE))

_parse_DataQCLookupTables(st, row) ==
    LET refid == row.ReferenceDesignator
        r1 == Then(Ok(st), Static("instrument", refid, FALSE,
                                  "Class" :> Str(row.SClass_PublicID), <<"Class">>))
        dpl == row.Data_Product_With_Level
        m == MatchDataProductWithLevel(dpl)
    IN IF r1.exc # "" THEN r1
       ELSE IF ~m.ok THEN InvalidRd(AsStore(r1), refid, "data_product", dpl)
       ELSE Then(r1, ListAttr("instrument", refid, "data_product_list",
                              Str(m.dp_type \o "_" \o m.dp_level), FALSE, TRUE))

\* The elements of a set of str in ascending order.
RECURSIVE SortedSeq(_)
SortedSeq(S) ==
    IF S = {} THEN <<>>
    ELSE LET least == CHOOSE x \in S : \A y \in S : x = y \/ StrLess(x, y)
         IN <<least>> \o SortedSeq(S \ {least})

\* The keywords of **entry that name a parameter of _add_object_attribute
\* bind that parameter instead of becoming a static attribute.
_parse_DataProductSpreadsheet(st, row) ==
    IF "data_product_type" \notin DOMAIN st.objs THEN Raise(st, "KeyError")
    ELSE
    LET PositionalNames == {"objtype", "objid", "key", "value"}
        OptionNames == {"value_is_list", "list_dup_ok", "change_ok", "list_sort", "mapping"}
        dp_types == st.objs["data_product_type"]
        dp_type == Strip(row.Data_Product_Identifier)
        dpt_obj == IF dp_type \in DOMAIN dp_types THEN dp_types[dp_type] ELSE <<>>
        level == Strip(row.Data_Product_Level1)
        key == dp_type \o "_" \o level
        update == "name" :> Str(Strip(row.Data_Product_Name))
                  @@ "code" :> Str(dp_type)
                  @@ "level" :> Str(level)
                  @@ "units" :> Str(Strip(row.Units))
                  @@ "dps" :> Str(Strip(row.DPS_DCN_s_))
                  @@ "diagrams" :> Str(Strip(row.Processing_Flow_Diagram_DCN_s_))
        copied == (DOMAIN dpt_obj) \ ({"id"} \cup DOMAIN update)
        entry == update @@ [x \in copied |-> dpt_obj[x]]
        statics == copied \ OptionNames
        change_ok == "change_ok" \in copied /\ Truthy(entry["change_ok"])
        korder == SortedSeq(statics)
                  \o <<"name", "code", "level", "units", "dps", "diagrams">>
        classes == ListAttr("data_product", key, "instrument_class_list",
                            Str(Strip(row.Instrument_Class)), FALSE, TRUE)
    IN IF copied \cap PositionalNames # {} THEN Raise(st, "TypeError")
       ELSE IF "mapping" \in copied
       THEN Raise(AsStore(Then(Ok(st), Static("data_product", key, FALSE, <<>>, <<>>))),
                  "AttributeError")
       ELSE Then(Then(Ok(st), Static("data_product", key, change_ok,
                                     [x \in statics \cup DOMAIN update |-> entry[x]],
                                     korder)),
                 classes)

_parse_AllSensorTypeCounts(st, row) ==
    Then(Ok(st), Attr("class", Strip(row.Class), "family", Strip(row.Family), EmptyMapping,
                      <<>>, <<>>))

(***************************************************************************)
(* The parsers of the mapping spreadsheet tabs                             *)
(***************************************************************************)
\* row.get(column, None)
Get(row, column) == IF column \in DOMAIN row THEN Str(row[column]) ELSE None

_parse_Arrays(st, row) ==
    Then(Ok(st), Args("array", row["Reference ID"], "name", Str(row["Name"]), FALSE, FALSE,
                      TRUE, TRUE, EmptyMapping, <<>>, <<>>))

_parse_Sites(st, row) ==
    LET ooi_rd == row["Reference ID"]
        name == row["Full Name"]
    IN Then(Then(Then(Then(Ok(st),
           Args("site", ooi_rd, "name", Str(name), FALSE, FALSE, TRUE, TRUE, EmptyMapping,
                <<>>, <<>>)),
           Attr("site", ooi_rd, "osite", name, EmptyMapping, <<>>, <<>>)),
           Static("osite", name, FALSE,
                  "name" :> Str(name) @@ "local_name" :> Str(row["Name Extension"]),
                  <<"name", "local_name">>)),
           ListAttr("osite", name, "site_rd_list", Str(ooi_rd), FALSE, TRUE))

_parse_Subsites(st, row) ==
    LET ooi_rd == row["Reference ID"]
        name == row["Full Name"]
        CoordNames == <<"lat_north", "lat_south", "lon_east", "lon_west", "depth_min", "depth_max">>
        \* float(row[c]) if row[c] else None
        coord_dict == [c \in Range(CoordNames) |->
                          IF row[c] = "" THEN None ELSE ParseFloat(row[c])]
    IN IF \E c \in Range(CoordNames) : row[c] # "" /\ ~IsFloatText(row[c])
       THEN Raise(st, "ValueError")
       ELSE When(row["lat_north"] # "",
                 Then(Then(Then(Ok(st),
                     Attr("subsite", ooi_rd, "ssite", name, EmptyMapping, <<>>, <<>>)),
                     Static("ssite", name, FALSE,
                            "name" :> Str(name) @@ "local_name" :> Str(row["Local Name"])
                                @@ "geo_area" :> Str(row["Site Name"]),
                            <<"name", "local_name", "geo_area">>)),
                     ListAttr("ssite", name, "subsite_rd_list", Str(ooi_rd), FALSE, TRUE)),
                 Static("ssite", name, FALSE, coord_dict, CoordNames))

_parse_Nodes(st, row) ==
    IF Get(row, "Ignore") = Str("Yes") THEN Ok(st)
    ELSE
    LET ooi_rd == row["Reference ID"]
        pushed == row["Push"] = "Yes" /\ ~Truthy(Get(row, "Clone"))
        node_entry == "local_name" :> Str(row["Name Extension"])
                      @@ "parent_id" :> Str(row["Parent Reference ID"])
                      @@ "platform_id" :> Str(row["Platform Reference ID"])
                      @@ "platform_config_type" :> Str(row["Platform Configuration Type"])
                      @@ "platform_agent_type" :> Str(row["Platform Agent Type"])
                      @@ "is_platform" :> Bool(row["Platform Reference ID"] = ooi_rd)
                      @@ "in_saf" :> Bool(row["SAF"] # "No")
                      @@ "self_port" :> Str(row["Self Port"])
                      @@ "uplink_node" :> Str(row["Uplink Node"])
                      @@ "uplink_port" :> Str(row["Uplink Port"])
                      @@ "deployment_start" :> (IF pushed THEN Str("2019-01-01")
                                                ELSE Str(row["Start Deployment Cruise"]))
                      @@ "clone_rd" :> Get(row, "Clone")
                      @@ "in_mapping" :> Bool(TRUE)
        r2 == Then(Then(Ok(st),
                 Static("node", ooi_rd, FALSE, node_entry,
                        <<"local_name", "parent_id", "platform_id", "platform_config_type",
                          "platform_agent_type", "is_platform", "in_saf", "self_port",
                          "uplink_node", "uplink_port", "deployment_start", "clone_rd",
                          "in_mapping">>)),
                 Args("node", ooi_rd, "name", Str(row["Full Name"]), FALSE, FALSE, TRUE, TRUE,
                      EmptyMapping, <<>>, <<>>))
        present == {c \in {"lat", "lon", "depth"} : row[c] # ""}
        attr == "lat" :> "latitude" @@ "lon" :> "longitude" @@ "depth" :> "depth_subsite"
        geo == [k \in {attr[c] : c \in present} |->
                   Str(row[CHOOSE c \in present : attr[c] = k])]
        r3 == IF present = {} THEN r2
              ELSE Then(r2, Static("node", ooi_rd, TRUE, geo,
                                   SelectSeq(<<"latitude", "longitude", "depth_subsite">>,
                                             LAMBDA k : k \in DOMAIN geo)))
    IN Then(r3, ListAttr("nodetype", Slice(ooi_rd, 9, 11), "array_list",
                         Str(Slice(ooi_rd, 0, 2)), TRUE, TRUE))

_parse_NodeType(st, row) ==
    Then(Then(Ok(st),
        Static("nodetype", row["Code"], TRUE, "name" :> Str(row["Name"]), <<"name">>)),
        Static("nodetype", row["Code"], FALSE,
               "pa_code" :> Str(row["PA Code"])
                   @@ "platform_family" :> Str(row["Platform Family"])
                   @@ "platform_type" :> Str(row["Platform Type"])
                   @@ "comp_name" :> Str(row["Composite Name"]),
               <<"pa_code", "platform_family", "platform_type", "comp_name">>))

_parse_Instruments(st, row) ==
    IF Get(row, "Ignore") = Str("Yes") THEN Ok(st)
    ELSE
    LET ooi_rd == row["Reference ID"]
        entry == "deployment_start" :> (IF row["Push"] = "Yes" THEN Str("2019-02-01")
                                        ELSE Str(row["First Deploy Date"]))
                 @@ "clone_rd" :> Get(row, "Clone")
        r1 == Then(Ok(st), Static("instrument", ooi_rd, FALSE, entry,
                                  <<"deployment_start", "clone_rd">>))
        present == {c \in {"lat", "lon", "depth_min", "depth_max"} : row[c] # ""}
        attr == "lat" :> "latitude" @@ "lon" :> "longitude" @@ "depth_min" :> "depth_port_min"
                @@ "depth_max" :> "depth_port_max"
        geo == [k \in {attr[c] : c \in present} |->
                   Str(row[CHOOSE c \in present : attr[c] = k])]
    IN IF present = {} THEN r1
       ELSE Then(r1, Static("instrument", ooi_rd, TRUE, geo,
                            SelectSeq(<<"latitude", "longitude", "depth_port_min",
                                        "depth_port_max">>,
                                      LAMBDA k : k \in DOMAIN geo)))

_parse_PlatformAgents(st, row) ==
    Then(Ok(st), Static("platformagent", row["Code"], FALSE,
                        "name" :> Str(row["Name"])
                            @@ "agent_type" :> Str(row["Agent Type"])
                            @@ "node_types" :> Str(row["Node Types"])
                            @@ "rt_control_path" :> Str(row["RT Control Path"])
                            @@ "rt_data_path" :> Str(row["RT Data Path"])
                            @@ "rt_data_acquisition" :> Str(row["RT Data Acquisition"])
                            @@ "full_data_acquisition" :> Str(row["Full Data Acquisition"])
                            @@ "ci_interface_location"
                                   :> Str(row["Marine-CI Interface Location"]),
                        <<"name", "agent_type", "node_types", "rt_control_path",
                          "rt_data_path", "rt_data_acquisition", "full_data_acquisition",
                          "ci_interface_location">>))

_parse_Series(st, row) ==
    LET code == row["Class Code"]
        series == row["Series"]
        series_rd == code \o series
        ia_code == row["IA Code"]
        dart_code == row["DA RT Code"]
        ia_exists == row["IA"] = "Yes"
        dart_exists == row["DA RT"] = "Yes"
        dapr_exists == row["DA PR"] = "Yes"
        tier1 == Bool(row["Tier 1"] = "Yes")
        first_avail == row["First Availability"]
        entry == "connection" :> Str(row["Connection"])
                 @@ "ia_code" :> Str(IF ia_exists THEN ia_code ELSE "")
                 @@ "dart_code" :> Str(IF dart_exists THEN dart_code ELSE "")
                 @@ "dapr_code" :> Str(IF dapr_exists THEN row["DA PR Code"] ELSE "")
                 @@ "ia_exists" :> Bool(ia_exists)
                 @@ "dart_exists" :> Bool(dart_exists)
                 @@ "dapr_exists" :> Bool(dapr_exists)
                 @@ "tier1" :> tier1
                 @@ "first_avail" :> (IF first_avail # ""
                                      THEN ParseDate(Str(first_avail), DEFAULT_MAX_DATE)
                                      ELSE DEFAULT_MAX_DATE)
        agent == "inst_class" :> Str(code) @@ "tier1" :> tier1
        ia == ia_exists /\ ia_code # "" /\ ia_code # "NA"
        dart == dart_exists /\ dart_code # "" /\ dart_code # "NA"
    IN IF Len(series) # 1 THEN Ok(st)
       ELSE IF series_rd \notin DOMAIN get_type_assets(st.objs, "series") THEN Ok(st)
       ELSE When(dart, When(dart, When(ia, When(ia,
                Then(Ok(st), Static("series", series_rd, FALSE, entry,
                                    <<"connection", "ia_code", "dart_code", "dapr_code",
                                      "ia_exists", "dart_exists", "dapr_exists", "tier1",
                                      "first_avail">>)),
                Static("instagent", ia_code, FALSE, agent, <<"inst_class", "tier1">>)),
                ListAttr("instagent", ia_code, "series_list", Str(series_rd), TRUE, TRUE)),
                Static("dataagent", dart_code, FALSE, agent, <<"inst_class", "tier1">>)),
                ListAttr("dataagent", dart_code, "series_list", Str(series_rd), TRUE, TRUE))

\* _parse_InstAgents and _parse_DataAgents, which differ in the type only.
ParseAgents(st, objtype, row) ==
    IF row["Agent Code"] = "" THEN Ok(st)
    ELSE Then(Ok(st), Static(objtype, row["Agent Code"], FALSE,
                             "active" :> Bool(row["Active"] = "Yes")
                                 @@ "present" :> Bool(row["Present"] = "Yes"),
                             <<"active", "present">>))

_parse_InstAgents(st, row) == ParseAgents(st, "instagent", row)

_parse_DataAgents(st, row) == ParseAgents(st, "dataagent", row)

_parse_AgentMap(st, row) ==
    LET series == row["Instrument Series"]
        node_type == row["Node Type"]
        agent_code == row["Agent Code"]
        mapping == List(<<Str(agent_code), Str(row["RD Prefix"])>>)
        known == series # "" /\ series \in DOMAIN get_type_assets(st.objs, "series")
        \* The two calls made for an agent the series is mapped to.
        Agent(r, objtype) ==
            WhenHas(known,
                    WhenHas(known, r, objtype, agent_code,
                            ListAttr(objtype, agent_code, "series_list", Str(series),
                                     TRUE, TRUE)),
                    objtype, agent_code,
                    Static(objtype, agent_code, FALSE, "inst_class" :> Str(Slice(series, 0, 5)),
                           <<"inst_class">>))
    IN WhenHas(node_type # "",
               Agent(Agent(When(known, Ok(st),
                                ListAttr("series", series, "agentmap", mapping, FALSE, FALSE)),
                           "dataagent"),
                     "instagent"),
               "nodetype", node_type,
               ListAttr("nodetype", node_type, "agentmap", mapping, FALSE, FALSE))

_parse_ModelMap(st, row) ==
    Then(Ok(st), Static("modelmap", row["Instrument Series"], FALSE,
                        "primary_series" :> Str(row["Primary Series"]), <<"primary_series">>))

_parse_DPS(st, row) ==
    LET code == row["Code"]
        ref_type == row["Ref Type"]
    IN IF ref_type # "" /\ code # ""
       THEN Then(Then(Ok(st),
              ListAttr("datalink", code, ref_type, Str(row["URL"]), FALSE, TRUE)),
              ListAttr("datalink", code, ref_type \o "_doc", Str(row["Document Name"]),
                       FALSE, TRUE))
       ELSE Ok(st)

(***************************************************************************)
(* Post-processing. A pass takes the graph objs and gives [objs, exc]: the *)
(* graph it leaves and the exception it ends with, "" when it completes.   *)
(* A loop over a dict visits its keys in the order given to it and stops   *)
(* at the first exception, leaving what it has changed so far.             *)
(***************************************************************************)
Done(objs) == [objs |-> objs, exc |-> ""]

Fail(objs, exc) == [objs |-> objs, exc |-> exc]

\* obj.get(key, None)
ObjGet(obj, key) == IF key \in DOMAIN obj THEN obj[key] ELSE None

\* d.update(u)
Update(d, u) == [x \in (DOMAIN d) \cup (DOMAIN u) |-> IF x \in DOMAIN u THEN u[x] ELSE d[x]]

\* objs[objtype][objid] = obj
SetObj(objs, objtype, objid, obj) == DictSet(objs, objtype, DictSet(objs[objtype], objid, obj))

\* _add_D1000 without the new id: the copies keep the id of their template.
add_D1000_KeepId(objs) ==
    IF ~HasObject(objs, "class", "PPSDN") THEN Fail(objs, "KeyError")
    ELSE LET o1 == SetObj(objs, "class", "D1000", objs["class"]["PPSDN"]) IN
         IF ~HasObject(o1, "series", "PPSDNA") THEN Fail(o1, "KeyError")
         ELSE LET o2 == SetObj(o1, "series", "D1000A", o1["series"]["PPSDNA"]) IN
              IF ~HasObject(o2, "makemodel", "non-commercial PPSDN") THEN Fail(o2, "KeyError")
              ELSE Done(SetObj(o2, "makemodel", "non-commercial D1000",
                               o2["makemodel"]["non-commercial PPSDN"]))

\* _add_D1000: the class, series and make/model of the D1000 thermistor are
\* copies of those of the PPSDN.
add_D1000(objs) ==
    IF ~HasObject(objs, "class", "PPSDN") THEN Fail(objs, "KeyError")
    ELSE
    LET d1000_obj == Update(objs["class"]["PPSDN"],
                            "id" :> Str("D1000") @@ "name" :> Str("Thermistor")
                            @@ "ClassLongName" :> Str("Thermistor")
                            @@ "alt_name" :> Str("Thermistor")
                            @@ "description" :> Str("Thermistor for RASFL and PPSDN instruments")
                            @@ "makemodel" :> List(<<Str("non-commercial D1000")>>))
        o1 == SetObj(objs, "class", "D1000", d1000_obj)
    IN IF ~HasObject(o1, "series", "PPSDNA") THEN Fail(o1, "KeyError")
       ELSE
       LET d1000a_obj == Update(o1["series"]["PPSDNA"],
                                "id" :> Str("D1000A") @@ "name" :> Str("D1000 Thermistor")
                                @@ "description"
                                       :> Str("Thermistor for RASFL and PPSDN instruments")
                                @@ "Class" :> Str("D1000")
                                @@ "Alternate Instrument Class Name" :> Str("Thermistor")
                                @@ "ClassLongName" :> Str("Thermistor")
                                @@ "ia_code" :> Str("D1000")
                                @@ "makemodel" :> Str("non-commercial D1000"))
           o2 == SetObj(o1, "series", "D1000A", d1000a_obj)
       IN IF ~HasObject(o2, "makemodel", "non-commercial PPSDN") THEN Fail(o2, "KeyError")
          ELSE
          LET mmd1000_obj == Update(o2["makemodel"]["non-commercial PPSDN"],
                                    "id" :> Str("non-commercial D1000")
                                    @@ "name" :> Str("non-commercial D1000")
                                    @@ "Make_Model_Description" :> Str("non-commercial D1000")
                                    @@ "Manufacturer" :> Str("non-commercial"))
              o3 == SetObj(o2, "makemodel", "non-commercial D1000", mmd1000_obj)
          IN IF ~HasObject(o3, "instagent", "D1000") THEN Done(o3)
             ELSE Done(SetObj(o3, "instagent", "D1000",
                              Update(o3["instagent"]["D1000"],
                                     "inst_class" :> Str("D1000")
                                     @@ "series_list" :> List(<<Str("D1000A")>>)
                                     @@ "tier1" :> Bool(FALSE))))

\* Lines 864-867: every node type without a name is named after its code.
NameNodeTypes(objs) ==
    IF "nodetype" \notin DOMAIN objs THEN Done(objs)
    ELSE Done(DictSet(objs, "nodetype",
                      [code \in DOMAIN objs["nodetype"] |->
                          LET obj == objs["nodetype"][code] IN
                          IF Truthy(ObjGet(obj, "name")) THEN obj
                          ELSE DictSet(obj, "name", Str("(" \o code \o ")"))]))

(***************************************************************************)
(* The geometry helpers (ion.util.geo_utils): the bounding box of points   *)
(* and of boxes, as min and max of the numbers found under each key.       *)
(***************************************************************************)
IsNumber(v) == v.k = "float" \/ (v.k = "str" /\ IsFloatText(v.s))

\* float(v) in thousandths, with its sign.
Signed(v) ==
    LET f == IF v.k = "float" THEN v ELSE ParseFloat(v.s) IN
    IF f.s = "-" THEN 0 - f.n ELSE f.n

FromSigned(n) == IF n < 0 THEN Float(TRUE, 0 - n) ELSE Float(FALSE, n)

Least(S) == IF S = {} THEN None ELSE FromSigned(CHOOSE x \in S : \A y \in S : x <= y)

Greatest(S) == IF S = {} THEN None ELSE FromSigned(CHOOSE x \in S : \A y \in S : x >= y)

BoundingBox(objs_list, lat_n, lat_s, lon_e, lon_w, dep_min, dep_max) ==
    LET Numbers(list, key) ==
            {Signed(list[i][key]) :
                i \in {j \in 1..Len(list) : key \in DOMAIN list[j] /\ IsNumber(list[j][key])}}
    IN
    [lat_north |-> Greatest(Numbers(objs_list, lat_n)),
     lat_south |-> Least(Numbers(objs_list, lat_s)),
     lon_east |-> Greatest(Numbers(objs_list, lon_e)),
     lon_west |-> Least(Numbers(objs_list, lon_w)),
     depth_min |-> Least(Numbers(objs_list, dep_min)),
     depth_max |-> Greatest(Numbers(objs_list, dep_max))]

\* GeoUtils.calc_bounding_box_for_points(objs, key_mapping=dict(depth="depth_subsite"))
calc_bounding_box_for_points(objs_list) ==
    BoundingBox(objs_list, "latitude", "latitude", "longitude", "longitude",
                "depth_subsite", "depth_subsite")

\* GeoUtils.calc_bounding_box_for_boxes(objs)
calc_bounding_box_for_boxes(objs_list) ==
    BoundingBox(objs_list, "lat_north", "lat_south", "lon_east", "lon_west",
                "depth_min", "depth_max")

(***************************************************************************)
(* Lines 869-894: rd, parent and bounding box of the ssites and osites     *)
(***************************************************************************)
\* The ids in a list of str.
Ids(list) == [i \in 1..Len(list.items) |-> list.items[i].s]

\* Lines 877-883: the ssite joins the osite of the site of its first subsite.
SsiteParent(o1, key, site_rd) ==
    LET sites == get_type_assets(o1, "site")
        osites == get_type_assets(o1, "osite")
    IN IF site_rd \notin DOMAIN sites THEN Fail(o1, "KeyError")
       ELSE IF "osite" \notin DOMAIN sites[site_rd]
               \/ sites[site_rd]["osite"].s \notin DOMAIN osites
       THEN Fail(o1, "KeyError")
       ELSE
       LET name == sites[site_rd]["osite"].s
           osite == osites[name]
           ssite_list == IF "ssite_list" \in DOMAIN osite THEN osite["ssite_list"].items
                         ELSE <<>>
           o2 == SetObj(o1, "osite", name,
                        DictSet(osite, "ssite_list", List(Append(ssite_list, Str(key)))))
       IN IF "site_rd_list" \notin DOMAIN osite THEN Fail(o2, "KeyError")
          ELSE Done(SetObj(o2, "ssite", key,
                           DictSet(o1["ssite"][key], "parent_id",
                                   osite["site_rd_list"].items[1])))

\* Lines 871-876, and then SsiteParent.
SsiteBody(g, key) ==
    LET objs == g.objs
        ssite == objs["ssite"][key]
        subsites == get_type_assets(objs, "subsite")
    IN IF "subsite_rd_list" \notin DOMAIN ssite THEN Fail(objs, "KeyError")
       ELSE
       LET subsite_rd_list == Ids(ssite["subsite_rd_list"])
           boxed == "lat_north" \in DOMAIN ssite /\ Truthy(ssite["lat_north"])
       IN IF ~boxed /\ \E i \in DOMAIN subsite_rd_list : subsite_rd_list[i] \notin DOMAIN subsites
          THEN Fail(objs, "KeyError")
          ELSE SsiteParent(
                   SetObj(objs, "ssite", key,
                          DictSet(IF boxed THEN ssite
                                  ELSE Update(ssite, calc_bounding_box_for_points(
                                           [i \in DOMAIN subsite_rd_list |->
                                               subsites[subsite_rd_list[i]]])),
                                  "rd", Str(subsite_rd_list[1]))),
                   key, OOIReferenceDesignator(subsite_rd_list[1]).site_rd)

OsiteBody(g, key) ==
    LET objs == g.objs
        osite == objs["osite"][key]
        ssites == get_type_assets(objs, "ssite")
    IN IF "site_rd_list" \notin DOMAIN osite THEN Fail(objs, "KeyError")
       ELSE
       LET ssite_list == IF "ssite_list" \in DOMAIN osite THEN Ids(osite["ssite_list"])
                         ELSE <<>>
       IN IF \E i \in DOMAIN ssite_list : ssite_list[i] \notin DOMAIN ssites
          THEN Fail(objs, "KeyError")
          ELSE
          LET bbox == calc_bounding_box_for_boxes(
                          [i \in DOMAIN ssite_list |-> ssites[ssite_list[i]]])
          IN Done(SetObj(objs, "osite", key,
                         DictSet(Update(osite, bbox), "rd", osite["site_rd_list"].items[1])))

(***************************************************************************)
(* _get_child_devices: the nodes under their parent_id, then the           *)
(* instruments under the node their designator names.                      *)
(***************************************************************************)
\* res_tree.setdefault(parent, []).append(child)
AddChild(res_tree, parent, child) ==
    IF parent \in DOMAIN res_tree
    THEN [res_tree EXCEPT ![parent] = Append(@, child)]
    ELSE DictSet(res_tree, parent, <<child>>)

\* self.child_devices.get(id, [])
Children(tree, id) == IF Str(id) \in DOMAIN tree THEN tree[Str(id)] ELSE <<>>

_get_child_devices(objs, node_order, inst_order) ==
    LET node_objs == get_type_assets(objs, "node")
        AddNode(res_tree, node_id) ==
            LET parent_id == ObjGet(node_objs[node_id], "parent_id") IN
            IF Str(node_id) # parent_id THEN AddChild(res_tree, parent_id, node_id)
            ELSE res_tree
        AddInst(res_tree, inst_id) ==
            AddChild(res_tree, Str(OOIReferenceDesignator(inst_id).node_rd), inst_id)
        RECURSIVE Each(_, _, _)
        Each(Body(_, _), res_tree, order) ==
            IF order = <<>> THEN res_tree
            ELSE Each(Body, Body(res_tree, Head(order)), Tail(order))
    IN Each(AddInst, Each(AddNode, <<>>, node_order), inst_order)

(***************************************************************************)
(* Lines 898-943: node enrichment                                          *)
(***************************************************************************)
\* str(min(numbers)) + "," + str(max(numbers))
MinMaxText(S) == FloatRepr(Least(S)) \o "," \o FloatRepr(Greatest(S))

\* Lines 904-906: the name from the subsite and the node type.
NodeName(objs, node_id) ==
    LET node_obj == objs["node"][node_id]
        subsite_id == Slice(node_id, 0, 8)
        type_id == Slice(node_id, 9, 11)
    IN IF Truthy(ObjGet(node_obj, "name")) THEN Done(objs)
       ELSE IF ~HasAttr(objs, "subsite", subsite_id, "name")
               \/ ~HasAttr(objs, "nodetype", type_id, "name")
       THEN Fail(objs, "KeyError")
       ELSE IF objs["subsite"][subsite_id]["name"].k # "str"
               \/ objs["nodetype"][type_id]["name"].k # "str"
       THEN Fail(objs, "TypeError")
       ELSE Done(SetObj(objs, "node", node_id,
                        DictSet(node_obj, "name",
                                Str(objs["subsite"][subsite_id]["name"].s \o " - "
                                    \o objs["nodetype"][type_id]["name"].s))))

\* Lines 907-918: latitude, longitude and depth from the child devices, on
\* the graph p leaves unless p raised.
NodeGeo(p, node_id, tree) ==
    IF p.exc # "" THEN p ELSE
    LET objs == p.objs
        node_objs == objs["node"]
        node_obj == node_objs[node_id]
        ch_nodes == Children(tree, node_id)
        Carrying(key) == {i \in DOMAIN ch_nodes : Truthy(ObjGet(node_objs[ch_nodes[i]], key))}
        Values(key) == {Signed(node_objs[ch_nodes[i]][key]) : i \in Carrying(key)}
        keys == <<"latitude", "longitude", "depth_subsite">>
        Fill(obj, key) ==
            IF ~Truthy(ObjGet(obj, key)) /\ Values(key) # {}
            THEN DictSet(obj, key, Str(MinMaxText(Values(key))))
            ELSE obj
    IN IF Truthy(ObjGet(node_obj, "latitude")) THEN Done(objs)
       ELSE IF \E i \in DOMAIN ch_nodes : ch_nodes[i] \notin DOMAIN node_objs
       THEN Fail(objs, "KeyError")
       ELSE IF \E k \in Range(keys) : \E i \in Carrying(k) :
                   ~IsNumber(node_objs[ch_nodes[i]][k])
       THEN Fail(objs, IF \E k \in Range(keys) : \E i \in Carrying(k) :
                              node_objs[ch_nodes[i]][k].k = "str"
                       THEN "ValueError" ELSE "TypeError")
       ELSE Done(SetObj(objs, "node", node_id,
                        Fill(Fill(Fill(node_obj, "latitude"), "longitude"), "depth_subsite")))

\* Lines 922-930: the connection flags of the node's platform agent.
NodeAgent(p, node_id) ==
    IF p.exc # "" THEN p ELSE
    LET objs == p.objs
        node_obj == objs["node"][node_id]
        pagent_type == IF "platform_agent_type" \in DOMAIN node_obj
                       THEN node_obj["platform_agent_type"] ELSE Str("")
    IN IF pagent_type.k # "str" \/ ~HasObject(objs, "platformagent", pagent_type.s)
       THEN Done(objs)
       ELSE LET pagent_obj == objs["platformagent"][pagent_type.s] IN
            IF {"rt_data_path", "rt_data_acquisition"} \subseteq DOMAIN pagent_obj
            THEN Done(SetObj(objs, "node", node_id,
                     Update(node_obj,
                            "instrument_agent_rt" :> Bool(pagent_obj["rt_data_path"] = Str("Direct"))
                            @@ "data_agent_rt"
                                   :> Bool(pagent_obj["rt_data_path"] = Str("File Transfer"))
                            @@ "data_agent_recovery"
                                   :> Bool(pagent_obj["rt_data_acquisition"] = Str("Partial")))))
            ELSE Fail(objs, "KeyError")

\* Lines 932-943: SAF_deploy_date and deploy_date.
NodeDates(p, node_id) ==
    IF p.exc # "" THEN p ELSE
    LET objs == p.objs
        node_obj == objs["node"][node_id]
        subsite_id == Slice(node_id, 0, 8)
    IN IF "in_saf" \notin DOMAIN node_obj THEN Fail(objs, "KeyError")
       ELSE IF ~Truthy(node_obj["in_saf"]) /\ ~HasObject(objs, "subsite", subsite_id)
       THEN Fail(objs, "KeyError")
       ELSE LET node_deploy_date ==
                    IF ~Truthy(node_obj["in_saf"])
                    THEN ObjGet(objs["subsite"][subsite_id], "First Deployment Date")
                    ELSE ObjGet(node_obj, "First Deployment Date")
                saf == ParseDate(node_deploy_date, DEFAULT_MAX_DATE)
            IN Done(SetObj(objs, "node", node_id,
                           Update(node_obj,
                                  "SAF_deploy_date" :> saf
                                  @@ "deploy_date"
                                         :> ParseDate(ObjGet(node_obj, "deployment_start"), saf))))

\* Lines 901-943: the body of the loop over the nodes.
NodeBody(g, node_id, tree) ==
    NodeDates(NodeAgent(NodeGeo(NodeName(g.objs, node_id), node_id, tree), node_id), node_id)

(***************************************************************************)
(* Lines 953-971: instrument enrichment                                    *)
(***************************************************************************)
\* inst_obj[key] = inst_obj[key] or <the node's value>, the node's value being
\* node_obj[node_key], or a part of it when part is "min" or "max"; on the
\* graph p leaves unless p raised.
Inherit(p, inst_id, key, node_obj, node_key, part) ==
    IF p.exc # "" THEN p ELSE
    LET objs == p.objs
        inst_obj == objs["instrument"][inst_id]
        \* text.split(",", 1)[0] and text.split(",", 1)[-1]
        BeforeComma(text) ==
            IF Find(text, ",") = 0 THEN text ELSE Slice(text, 0, Find(text, ",") - 1)
        AfterComma(text) ==
            IF Find(text, ",") = 0 THEN text ELSE SliceFrom(text, Find(text, ","))
    IN
    IF key \notin DOMAIN inst_obj THEN Fail(objs, "KeyError")
    ELSE IF Truthy(inst_obj[key]) THEN Done(objs)
    ELSE IF node_key \notin DOMAIN node_obj THEN Fail(objs, "KeyError")
    ELSE IF part = "" THEN Done(SetObj(objs, "instrument", inst_id,
                                       DictSet(inst_obj, key, node_obj[node_key])))
    ELSE IF node_obj[node_key].k # "str" THEN Fail(objs, "AttributeError")
    ELSE Done(SetObj(objs, "instrument", inst_id,
                     DictSet(inst_obj, key,
                             Str(IF part = "min" THEN BeforeComma(node_obj[node_key].s)
                                 ELSE AfterComma(node_obj[node_key].s)))))

\* Lines 960-971: the series, node and platform agent of the instrument
\* inst_rd are looked up, and the geospatial values inherited.
InstConnect(o1, inst_id, inst_rd) ==
    IF ~HasObject(o1, "series", inst_rd.series_rd)
       \/ ~HasAttr(o1, "node", inst_rd.node_rd, "platform_agent_type")
    THEN Fail(o1, "KeyError")
    ELSE
    LET node_obj == o1["node"][inst_rd.node_rd]
        pagent_type == node_obj["platform_agent_type"]
    IN IF pagent_type.k # "str" \/ ~HasObject(o1, "platformagent", pagent_type.s)
       THEN Fail(o1, "KeyError")
       ELSE Inherit(Inherit(Inherit(Inherit(Done(o1),
                inst_id, "latitude", node_obj, "latitude", ""),
                inst_id, "longitude", node_obj, "longitude", ""),
                inst_id, "depth_port_min", node_obj, "depth_subsite", "min"),
                inst_id, "depth_port_max", node_obj, "depth_subsite", "max")

\* Lines 954-957: the dates of the instrument, and then InstConnect.
InstBody(g, inst_id) ==
    LET inst_obj == g.objs["instrument"][inst_id]
        Dated(saf) ==
            Update(inst_obj,
                   "SAF_deploy_date" :> saf
                   @@ "deploy_date" :> ParseDate(ObjGet(inst_obj, "deployment_start"), saf))
    IN InstConnect(SetObj(g.objs, "instrument", inst_id,
                          Dated(ParseDate(ObjGet(inst_obj, "First Deployment Date"),
                                          DEFAULT_MAX_DATE))),
                   inst_id, OOIReferenceDesignator(inst_id))

(***************************************************************************)
(* Lines 973-1030: the clones. The node clone pass gives [objs, exc,       *)
(* insts], insts being new_insts.                                          *)
(***************************************************************************)
\* obj.update({k: v for k, v in clone_obj.iteritems() if not obj.get(k, None)})
InheritFromTemplate(obj, clone_obj) ==
    Update(obj, [k \in {x \in DOMAIN clone_obj : ~Truthy(ObjGet(obj, x))} |-> clone_obj[k]])

\* clone_child passing over a child that is not an instrument.
clone_child_SkipOthers(g, chdev, node_id, tree) ==
    LET RECURSIVE Copy(_, _)
        Copy(h, dev) ==
            IF ~HasObject(h.objs, "instrument", dev) THEN h
            ELSE LET chdev_obj == h.objs["instrument"][dev]
                     clonech_rdstr == OOIReferenceDesignator(node_id).node_rd \o "-"
                                      \o SliceFrom(chdev_obj["id"].s, 15)
                     RECURSIVE Each(_, _)
                     Each(e, chdevs) ==
                         IF chdevs = <<>> THEN e ELSE Each(Copy(e, Head(chdevs)), Tail(chdevs))
                 IN Each([h EXCEPT !.insts = Append(@, DictSet(chdev_obj, "id", Str(clonech_rdstr)))],
                         Children(tree, dev))
    IN Copy(g, chdev)

\* clone_child(chdev) and its recursion, for the clone node_id: the copy of
\* an instrument gets the clone's node designator in front of its port and
\* instrument part.
RECURSIVE clone_child(_, _, _, _)
clone_child(g, chdev, node_id, tree) ==
    IF HasObject(g.objs, "instrument", chdev)
    THEN LET chdev_obj == g.objs["instrument"][chdev]
             clonech_rdstr == OOIReferenceDesignator(node_id).node_rd \o "-"
                              \o SliceFrom(chdev_obj["id"].s, 15)
             clonech_obj == DictSet(chdev_obj, "id", Str(clonech_rdstr))
             RECURSIVE Each(_, _)
             Each(h, chdevs) ==
                 IF chdevs = <<>> \/ h.exc # "" THEN h
                 ELSE Each(clone_child(h, Head(chdevs), node_id, tree), Tail(chdevs))
         IN Each([g EXCEPT !.insts = Append(@, clonech_obj)], Children(tree, chdev))
    ELSE [g EXCEPT !.exc = "BadRequest"]

CloneNodeBody(g, node_id, tree) ==
    LET node_objs == g.objs["node"]
        node_obj == node_objs[node_id]
        clone_rd == ObjGet(node_obj, "clone_rd")
    IN IF ~Truthy(clone_rd) THEN g
       ELSE IF clone_rd.k # "str" \/ clone_rd.s \notin DOMAIN node_objs THEN g
       ELSE LET g1 == [g EXCEPT !.objs = SetObj(g.objs, "node", node_id,
                                             InheritFromTemplate(node_obj, node_objs[clone_rd.s]))]
                RECURSIVE Each(_, _)
                Each(h, chdevs) ==
                    IF chdevs = <<>> \/ h.exc # "" THEN h
                    ELSE Each(clone_child(h, Head(chdevs), node_id, tree), Tail(chdevs))
            IN Each(g1, Children(tree, clone_rd.s))

CloneInstBody(g, inst_id) ==
    LET inst_objs == g.objs["instrument"]
        inst_obj == inst_objs[inst_id]
        clone_rd == ObjGet(inst_obj, "clone_rd")
    IN IF ~Truthy(clone_rd) THEN g
       ELSE IF clone_rd.k # "str" \/ clone_rd.s \notin DOMAIN inst_objs THEN g
       ELSE Done(SetObj(g.objs, "instrument", inst_id,
                        InheritFromTemplate(inst_obj, inst_objs[clone_rd.s])))

\* for node_id, node_obj in node_objs.iteritems(), in the order keys.
RECURSIVE CloneNodes(_, _, _)
CloneNodes(g, keys, tree) ==
    IF keys = <<>> \/ g.exc # "" THEN g
    ELSE CloneNodes(CloneNodeBody(g, Head(keys), tree), Tail(keys), tree)

\* for inst_id, inst_obj in inst_objs.iteritems(), in the order keys.
RECURSIVE CloneInstruments(_, _)
CloneInstruments(g, keys) ==
    IF keys = <<>> \/ g.exc # "" THEN g
    ELSE CloneInstruments(CloneInstBody(g, Head(keys)), Tail(keys))

\* inst_objs.update({io["id"]: io for io in new_insts})
RECURSIVE Merge(_, _)
Merge(objs, insts) ==
    IF insts = <<>> THEN objs
    ELSE Merge(SetObj(objs, "instrument", Head(insts)["id"].s, Head(insts)), Tail(insts))

(***************************************************************************)
(* is_cabled, is_dataagent, get_agent_code                                 *)
(***************************************************************************)
\* ooi_rd.marine_io: the marine network an asset designator belongs to, by
\* its array.
marine_io(ooi_rd) ==
    IF ooi_rd.rd_type # "asset" THEN ""
    ELSE IF ooi_rd.array = "RS" THEN "RSN"
    ELSE IF ooi_rd.array = "CE" THEN "EA"
    ELSE "CG"

is_cabled(ooi_rd) ==
    marine_io(ooi_rd) = "RSN" \/ ooi_rd.subsite_rd \in {"CE02SHBP", "CE04OSBP", "CE04OSHY"}

is_dataagent(ooi_rd) ==
    IF ~is_cabled(ooi_rd) THEN TRUE
    ELSE ooi_rd.inst_class \in {"HYDBB", "HYDLF", "OBSBB", "OBSBK", "OBSSP", "FLOBN", "OSMOI"}

\* s.startswith(prefix)
StartsWith(s, prefix) == Len(prefix) <= Len(s) /\ Slice(s, 0, Len(prefix)) = prefix

\* for agent_id, rd_prefix in agent_map: if ooi_rd.rd.startswith(rd_prefix):
\* return agent_id. found tells whether the loop returned.
RECURSIVE FirstAgent(_, _)
FirstAgent(agent_map, rd) ==
    IF agent_map = <<>> THEN [found |-> FALSE, code |-> None]
    ELSE IF StartsWith(rd, Head(agent_map).items[2].s)
         THEN [found |-> TRUE, code |-> Head(agent_map).items[1]]
         ELSE FirstAgent(Tail(agent_map), rd)

\* Below, CHOOSE r \in {F(v) : v \in {e}} : TRUE is F(e) with the local e
\* computed once, as an assignment to a local variable is.

\* get_agent_code taking every identifier that is no instrument for a node.
get_agent_code_NodeElse(objs, ooi_rd_str) ==
    LET series_objs == get_type_assets(objs, "series")
        nodetype_objs == get_type_assets(objs, "nodetype")
        Returned(v) == [exc |-> "", code |-> v]
        Raised(e) == [exc |-> e, code |-> None]
        Code(ooi_rd) ==
            LET instrument == ooi_rd.rd_type = "asset" /\ ooi_rd.rd_subtype = "instrument"
                node == ~instrument
            IN IF ~instrument /\ ~node THEN Raised("BadRequest")
               ELSE IF instrument /\ ooi_rd.series_rd \notin DOMAIN series_objs THEN Raised("KeyError")
               ELSE IF node /\ ooi_rd.node_type \notin DOMAIN nodetype_objs THEN Raised("KeyError")
               ELSE
               LET obj == IF instrument THEN series_objs[ooi_rd.series_rd]
                          ELSE nodetype_objs[ooi_rd.node_type]
                   agent_map == IF "agentmap" \in DOMAIN obj THEN obj["agentmap"].items ELSE <<>>
                   is_da == is_dataagent(ooi_rd)
                   first == FirstAgent(agent_map, ooi_rd.rd)
               IN IF first.found THEN Returned(first.code)
                  ELSE IF instrument
                  THEN LET key == IF is_da THEN "dart_code" ELSE "ia_code" IN
                       IF key \in DOMAIN obj THEN Returned(obj[key]) ELSE Raised("KeyError")
                  ELSE IF Truthy(ObjGet(obj, "pa_code")) THEN Returned(obj["pa_code"])
                  ELSE Returned(Str(IF is_da THEN "DART_" \o ooi_rd.node_type ELSE ooi_rd.node_type))
    IN CHOOSE code \in {Code(ooi_rd) : ooi_rd \in {OOIReferenceDesignator(ooi_rd_str)}} : TRUE

\* get_agent_code(ooi_rd) for a str: the exception raised, or "" and the
\* value returned.
get_agent_code(objs, ooi_rd_str) ==
    LET series_objs == get_type_assets(objs, "series")
        nodetype_objs == get_type_assets(objs, "nodetype")
        Returned(v) == [exc |-> "", code |-> v]
        Raised(e) == [exc |-> e, code |-> None]
        Code(ooi_rd) ==
            LET instrument == ooi_rd.rd_type = "asset" /\ ooi_rd.rd_subtype = "instrument"
                node == ooi_rd.rd_type = "asset" /\ ooi_rd.rd_subtype = "node"
            IN IF ~instrument /\ ~node THEN Raised("BadRequest")
               ELSE IF instrument /\ ooi_rd.series_rd \notin DOMAIN series_objs THEN Raised("KeyError")
               ELSE IF node /\ ooi_rd.node_type \notin DOMAIN nodetype_objs THEN Raised("KeyError")
               ELSE
               LET obj == IF instrument THEN series_objs[ooi_rd.series_rd]
                          ELSE nodetype_objs[ooi_rd.node_type]
                   agent_map == IF "agentmap" \in DOMAIN obj THEN obj["agentmap"].items ELSE <<>>
                   is_da == is_dataagent(ooi_rd)
                   first == FirstAgent(agent_map, ooi_rd.rd)
               IN IF first.found THEN Returned(first.code)
                  ELSE IF instrument
                  THEN LET key == IF is_da THEN "dart_code" ELSE "ia_code" IN
                       IF key \in DOMAIN obj THEN Returned(obj[key]) ELSE Raised("KeyError")
                  ELSE IF Truthy(ObjGet(obj, "pa_code")) THEN Returned(obj["pa_code"])
                  ELSE Returned(Str(IF is_da THEN "DART_" \o ooi_rd.node_type ELSE ooi_rd.node_type))
    IN CHOOSE code \in {Code(ooi_rd) : ooi_rd \in {OOIReferenceDesignator(ooi_rd_str)}} : TRUE

(***************************************************************************)
(* _perform_ooi_checks                                                     *)
(***************************************************************************)
\* RefWarnings looking only at the first element of a list.
RefWarningsListHead(objs, objtype, attr, target_type, obj_key) ==
    LET ref_attr == ObjGet(objs[objtype][obj_key], attr)
        values == IF ref_attr.k = "none" THEN <<>>
                  ELSE IF ref_attr.k = "list" THEN SubSeq(ref_attr.items, 1, IF ref_attr.items = <<>> THEN 0 ELSE 1)
                  ELSE <<ref_attr>>
        missing == SelectSeq(values,
                             LAMBDA v : ~(v.k = "str" /\ v.s \in DOMAIN objs[target_type]))
    IN [i \in 1..Len(missing) |->
           Warning(obj_key, "ref_exists", objtype, attr, None, missing[i])]

\* The warnings of one object of _checkooi_ref_exists.
RefWarnings(objs, objtype, attr, target_type, obj_key) ==
    LET ref_attr == ObjGet(objs[objtype][obj_key], attr)
        values == IF ref_attr.k = "none" THEN <<>>
                  ELSE IF ref_attr.k = "list" THEN ref_attr.items
                  ELSE <<ref_attr>>
        missing == SelectSeq(values,
                             LAMBDA v : ~(v.k = "str" /\ v.s \in DOMAIN objs[target_type]))
    IN [i \in 1..Len(missing) |->
           Warning(obj_key, "ref_exists", objtype, attr, None, missing[i])]

\* _checkooi_ref_exists putting its warnings in front of the log.
_checkooi_ref_exists_InFront(objs, warns, objtype, attr, target_type, order) ==
    LET RECURSIVE Found(_)
        Found(keys) ==
            IF keys = <<>> THEN <<>>
            ELSE RefWarnings(objs, objtype, attr, target_type, Head(keys)) \o Found(Tail(keys))
    IN IF objtype \notin DOMAIN objs
       THEN <<Warning("GENERAL", "ref_exists", objtype, "", None, None)>> \o warns
       ELSE IF target_type \notin DOMAIN objs
       THEN <<Warning("GENERAL", "ref_exists", target_type, "", None, None)>> \o warns
       ELSE Found(order) \o warns

\* _checkooi_ref_exists(objtype, attr, target_type), the objects in the
\* order given: the warnings log it leaves.
RECURSIVE _checkooi_ref_exists(_, _, _, _, _, _)
_checkooi_ref_exists(objs, warns, objtype, attr, target_type, order) ==
    IF objtype \notin DOMAIN objs
    THEN Append(warns, Warning("GENERAL", "ref_exists", objtype, "", None, None))
    ELSE IF target_type \notin DOMAIN objs
    THEN Append(warns, Warning("GENERAL", "ref_exists", target_type, "", None, None))
    ELSE IF order = <<>> THEN warns
    ELSE _checkooi_ref_exists(objs,
                              warns \o RefWarnings(objs, objtype, attr, target_type, Head(order)),
                              objtype, attr, target_type, Tail(order))

(***************************************************************************)
(* analyze_ooi_assets: the two passes that set deployment dates in the     *)
(* graph. The report composed after them (lines 1180-1337) writes no       *)
(* object of the graph. A pass state g is [objs, exc].                     *)
(***************************************************************************)
\* max(a, b) and min(a, b) of two datetimes.
LaterDate(a, b) == IF a.n >= b.n THEN a ELSE b

EarlierDate(a, b) == IF a.n <= b.n THEN a ELSE b

\* obj.get("deploy_date", None) or DEFAULT_MAX_DATE
DeployDateOr(obj) ==
    IF Truthy(ObjGet(obj, "deploy_date")) THEN obj["deploy_date"] ELSE DEFAULT_MAX_DATE

\* AnalyzeNodeBody leaving the deploy date of the node as it is.
AnalyzeNodeBody_NoClamp(g, ooi_id) ==
    LET objs == g.objs
        ooi_obj == objs["node"][ooi_id]
        type_id == Slice(ooi_id, 9, 11)
    IN IF ~HasAttr(objs, "node", ooi_id, "platform_id") THEN Fail(objs, "KeyError")
       ELSE IF ooi_obj["platform_id"].k # "str"
               \/ ~HasObject(objs, "node", ooi_obj["platform_id"].s)
               \/ "deploy_date" \notin DOMAIN ooi_obj
               \/ ~HasObject(objs, "nodetype", type_id)
       THEN Fail(objs, "KeyError")
       ELSE Done(SetObj(objs, "nodetype", type_id,
                        DictSet(objs["nodetype"][type_id], "deploy_date",
                                EarlierDate(ooi_obj["deploy_date"],
                                            DeployDateOr(objs["nodetype"][type_id])))))

\* Lines 1123-1147: the body of the loop over the nodes. The children by
\* parent and the platforms deployed by end_date are collected for the
\* report only.
AnalyzeNodeBody(g, ooi_id) ==
    LET objs == g.objs
        ooi_obj == objs["node"][ooi_id]
        type_id == Slice(ooi_id, 9, 11)
    IN IF ~HasAttr(objs, "node", ooi_id, "platform_id") THEN Fail(objs, "KeyError")
       ELSE IF ooi_obj["platform_id"].k # "str"
               \/ ~HasObject(objs, "node", ooi_obj["platform_id"].s)
               \/ "deploy_date" \notin DOMAIN ooi_obj
       THEN Fail(objs, "KeyError")
       ELSE
       LET node_deploy_date == ooi_obj["deploy_date"]
           platform_deploy_date ==
               ObjGet(objs["node"][ooi_obj["platform_id"].s], "deploy_date")
       IN IF node_deploy_date.k # "date" \/ platform_deploy_date.k # "date"
          THEN Fail(objs, "TypeError")
          ELSE
          LET clamped == IF node_deploy_date.n < platform_deploy_date.n
                         THEN SetObj(objs, "node", ooi_id,
                                     DictSet(ooi_obj, "deploy_date", platform_deploy_date))
                         ELSE objs
          IN IF ~HasObject(clamped, "nodetype", type_id) THEN Fail(clamped, "KeyError")
             ELSE LET nodetype_obj == clamped["nodetype"][type_id]
                  IN Done(SetObj(clamped, "nodetype", type_id,
                                 DictSet(nodetype_obj, "deploy_date",
                                         EarlierDate(clamped["node"][ooi_id]["deploy_date"],
                                                     DeployDateOr(nodetype_obj)))))

\* AnalyzeInstBody with the first availability of the series in place of the
\* deploy date of the instrument.
AnalyzeInstBody_Override(g, inst_id) ==
    LET objs == g.objs
        inst_obj == objs["instrument"][inst_id]
        ooi_rd == OOIReferenceDesignator(inst_id)
    IN IF ~HasAttr(objs, "node", ooi_rd.node_rd, "deploy_date")
          \/ ~HasObject(objs, "series", ooi_rd.series_rd)
       THEN Fail(objs, "KeyError")
       ELSE
       LET series_obj == objs["series"][ooi_rd.series_rd]
           series_first_avail == ObjGet(series_obj, "first_avail")
           deploy_date == LaterDate(IF Truthy(series_first_avail) THEN series_first_avail
                                    ELSE DEFAULT_MAX_DATE,
                                    objs["node"][ooi_rd.node_rd]["deploy_date"])
       IN Done(SetObj(SetObj(objs, "instrument", inst_id,
                             DictSet(inst_obj, "deploy_date", deploy_date)),
                      "series", ooi_rd.series_rd,
                      DictSet(series_obj, "deploy_date",
                              EarlierDate(deploy_date, DeployDateOr(series_obj)))))

\* Lines 1156-1179: the body of the loop over the instruments. The
\* instruments by node are collected for the report only.
AnalyzeInstBody(g, inst_id) ==
    LET objs == g.objs
        inst_obj == objs["instrument"][inst_id]
        ooi_rd == OOIReferenceDesignator(inst_id)
    IN IF ~HasAttr(objs, "node", ooi_rd.node_rd, "deploy_date")
          \/ ~HasObject(objs, "series", ooi_rd.series_rd)
       THEN Fail(objs, "KeyError")
       ELSE
       LET node_deploy_date == objs["node"][ooi_rd.node_rd]["deploy_date"]
           series_obj == objs["series"][ooi_rd.series_rd]
           series_first_avail == ObjGet(series_obj, "first_avail")
       IN IF Truthy(series_first_avail) /\ "deploy_date" \notin DOMAIN inst_obj
          THEN Fail(objs, "KeyError")
          ELSE IF \/ node_deploy_date.k # "date"
                  \/ Truthy(series_first_avail)
                        /\ (series_first_avail.k # "date" \/ inst_obj["deploy_date"].k # "date")
          THEN Fail(objs, "TypeError")
          ELSE
          LET overridden == IF Truthy(series_first_avail)
                            THEN LaterDate(inst_obj["deploy_date"], series_first_avail)
                            ELSE DEFAULT_MAX_DATE
              deploy_date == LaterDate(overridden, node_deploy_date)
              o1 == SetObj(objs, "instrument", inst_id,
                           DictSet(inst_obj, "deploy_date", deploy_date))
          IN Done(SetObj(o1, "series", ooi_rd.series_rd,
                         DictSet(series_obj, "deploy_date",
                                 EarlierDate(deploy_date, DeployDateOr(series_obj)))))

(***************************************************************************)
(* The engine's store state and one call of the store on it                *)
(***************************************************************************)
Store == [objs |-> ooi_objects, attrs |-> ooi_obj_attrs, warns |-> warnings]

\* The categories in the order extract_ooi_assets reads them; NodeTypes is
\* read twice.
Categories ==
    <<"NodeTypes", "AttributeReportArrays", "AttributeReportClass",
      "AttributeReportDataProducts", "AttributeReportFamilies", "AttributeReportMakeModel",
      "AttributeReportNodes", "AttributeReportPorts", "AttributeReportReferenceDesignator",
      "AttributeReportSeries", "AttributeReportSites", "AttributeReportSubseries",
      "AttributeReportSubsites", "NodeTypes", "InstrumentCatalogFull", "DataQCLookupTables",
      "DataProductSpreadsheet", "AllSensorTypeCounts", "MAP:Arrays", "MAP:Sites",
      "MAP:Subsites", "MAP:NodeType", "MAP:Nodes", "MAP:Instruments", "MAP:PlatformAgents",
      "MAP:Series", "MAP:InstAgents", "MAP:DataAgents", "MAP:AgentMap", "MAP:ModelMap",
      "MAP:DPS">>

\* Every file present and without rows.
NoFiles == [f \in Range(Categories) |-> <<>>]

\* The state after construction, whatever the files hold; the graph is
\* empty until the first extraction.
Constructed ==
    /\ ooi_objects = <<>>
    /\ ooi_obj_attrs = <<>>
    /\ warnings = <<>>
    /\ call = [op |-> "init"]
    /\ raised = ""
    /\ applied = <<>>
    /\ pc = "idle"
    /\ cat = 0
    /\ pos = 0
    /\ child_devices = <<>>
    /\ new_insts = <<>>
    /\ iteration = <<>>
    /\ extracted = FALSE
    /\ analysis = <<>>
    /\ resource_ds = <<>>

\* A fresh engine for calls of the store alone: no file is read.
InitStore == Constructed /\ files = NoFiles

\* self._add_object_attribute(...) with the arguments a.
Put(a) ==
    LET r == AddObjectAttribute(Store, a) IN
    /\ Len(r.warns) <= MaxWarnings
    /\ ooi_objects' = r.objs
    /\ ooi_obj_attrs' = r.attrs
    /\ warnings' = r.warns
    /\ raised' = r.exc
    /\ UNCHANGED engine

\* The orders in which a dict with the keys S can be iterated.
RECURSIVE Orders(_)
Orders(S) ==
    IF S = {} THEN {<<>>}
    ELSE UNION {{<<x>> \o q : q \in Orders(S \ {x})} : x \in S}

\* All dicts with keys among names and values among vals.
Dicts(names, vals) == UNION {[S -> vals] : S \in SUBSET names}

(***************************************************************************)
(* SpecStore: any sequence of non-list writes, positional and static, to   *)
(* one object. The key "b" is renamed to "a" by the mapping.               *)
(***************************************************************************)
StoreValues == {Str("x"), Str("y")}

StoreMapping == "b" :> "a"

StoreCalls ==
    UNION {{Args("node", objid, key, value, FALSE, FALSE, change_ok, TRUE, StoreMapping,
                 kwargs, korder) :
               objid \in {"", "N1"}, key \in {"", "a", "b"}, value \in StoreValues,
               change_ok \in BOOLEAN, korder \in Orders(DOMAIN kwargs)} :
           kwargs \in Dicts({"a", "s"}, StoreValues)}

StorePut ==
    \E a \in StoreCalls :
        Put(a) /\ call' = [op |-> "put"] /\ UNCHANGED applied

SpecStore == InitStore /\ [][StorePut]_vars

\* The positional non-list writes without static attributes.
KeyedCalls == {a \in StoreCalls : a.objid # "" /\ a.key # "" /\ DOMAIN a.kwargs = {}}

\* The writes that carry static attributes only.
StaticCalls == {a \in StoreCalls : a.objid # "" /\ a.key = ""}

C2_ConflictDetection ==
    \A a \in KeyedCalls :
        LET key == MapKey(a.mapping, a.key) IN
        (/\ HasAttr(ooi_objects, a.objtype, a.objid, key)
         /\ ooi_objects[a.objtype][a.objid][key].k # "list"
         /\ ooi_objects[a.objtype][a.objid][key] # a.value) =>
            LET r == AddObjectAttribute(Store, a)
                old == ooi_objects[a.objtype][a.objid]
            IN IF a.change_ok
               THEN /\ r.warns = warnings
                    /\ r.objs[a.objtype][a.objid] = DictSet(old, key, a.value)
               ELSE /\ r.warns = Append(warnings, Warning(a.objid, "duplicate_attr", a.objtype,
                                                          key, old[key], a.value))
                    /\ r.objs = ooi_objects

\* A conflicting write has been refused: the log names old and new value, and
\* the old value is still the one stored.
C2_Witness ==
    \E i \in 1..Len(warnings) :
        /\ warnings[i].kind = "duplicate_attr"
        /\ warnings[i].old # warnings[i].new
        /\ HasAttr(ooi_objects, warnings[i].objtype, warnings[i].id, warnings[i].key)
        /\ ooi_objects[warnings[i].objtype][warnings[i].id][warnings[i].key] = warnings[i].old

\* C6: a write with an empty object id raises, and the object graph (the
\* type's mapping included), the attribute-name registry and the warnings
\* log are as before the call.
C6_EmptyIdChangesNothing ==
    /\ [](\A a \in StoreCalls :
            a.objid = "" =>
                AddObjectAttribute(Store, a) = Result(ooi_objects, ooi_obj_attrs, warnings, "Exception"))
    /\ [][raised' = "Exception" => UNCHANGED <<ooi_objects, ooi_obj_attrs, warnings>>]_vars

\* A write with an empty id has failed on an engine that holds no type yet.
C6_Witness == raised = "Exception" /\ DOMAIN ooi_objects = {} /\ call.op = "put"

\* What each static attribute of a static-only call does: kept with a warning
\* when a different value is stored and change_ok is false, stored otherwise;
\* the other attributes stay, and nothing else is logged.
C7_StaticRules ==
    \A a \in StaticCalls :
        LET r == AddObjectAttribute(Store, a)
            pre == IF HasObject(ooi_objects, a.objtype, a.objid)
                   THEN ooi_objects[a.objtype][a.objid] ELSE [x \in {"id"} |-> Str(a.objid)]
            post == r.objs[a.objtype][a.objid]
            conflicts == {n \in DOMAIN a.kwargs :
                            n \in DOMAIN pre /\ pre[n] # a.kwargs[n] /\ ~a.change_ok}
        IN /\ r.exc = ""
           /\ DOMAIN post = DOMAIN pre \cup DOMAIN a.kwargs
           /\ \A n \in DOMAIN a.kwargs :
                 post[n] = IF n \in conflicts THEN pre[n] ELSE a.kwargs[n]
           /\ \A k \in DOMAIN pre \ DOMAIN a.kwargs : post[k] = pre[k]
           /\ Len(r.warns) = Len(warnings) + Cardinality(conflicts)
           /\ SubSeq(r.warns, 1, Len(warnings)) = warnings
           /\ \A n \in conflicts :
                 \E i \in (Len(warnings) + 1)..Len(r.warns) :
                     r.warns[i] = Warning(a.objid, "different_static_attr", a.objtype, n,
                                          pre[n], a.kwargs[n])

\* The static write name=v and the positional write (name, v) from the store.
StaticForm(name, v, change_ok) ==
    Args("node", "N1", "", None, FALSE, FALSE, change_ok, TRUE, EmptyMapping, name :> v, <<name>>)

PositionalForm(name, v, change_ok) ==
    Args("node", "N1", name, v, FALSE, FALSE, change_ok, TRUE, EmptyMapping, <<>>, <<>>)

ListValues == {Str(""), Str("x"), Str("y")}

ListCalls ==
    {Args("node", "N1", key, value, TRUE, list_dup_ok, FALSE, list_sort, EmptyMapping,
          <<>>, <<>>) :
        key \in {"l", "id"}, value \in ListValues, list_dup_ok \in BOOLEAN,
        list_sort \in BOOLEAN}

ListPut ==
    \E a \in ListCalls :
        Put(a) /\ call' = [op |-> "put", a |-> a] /\ UNCHANGED applied

SpecList == InitStore /\ [][ListPut]_vars

SortedPut ==
    \E a \in ListCalls :
        a.list_sort /\ Put(a) /\ call' = [op |-> "put", a |-> a] /\ UNCHANGED applied

SpecSorted == InitStore /\ [][SortedPut]_vars

\* The list-valued attributes of the graph, as <<type, id, key>>.
ListAttrs ==
    {p \in UNION {UNION {{<<t, i, k>> : k \in DOMAIN ooi_objects[t][i]} :
                            i \in DOMAIN ooi_objects[t]} : t \in DOMAIN ooi_objects} :
        ooi_objects[p[1]][p[2]][p[3]].k = "list"}

ItemsOf(p) == ooi_objects[p[1]][p[2]][p[3]].items

\* C3: no stored list holds a value twice; a list write of a value already
\* in the list leaves the graph unchanged and appends exactly one warning
\* without list_dup_ok and none with it.
C3_ListNoDuplicates ==
    /\ \A p \in ListAttrs :
          \A i, j \in 1..Len(ItemsOf(p)) : ItemsOf(p)[i] = ItemsOf(p)[j] => i = j
    /\ \A a \in ListCalls :
          (/\ <<a.objtype, a.objid, a.key>> \in ListAttrs
           /\ a.value \in Range(ItemsOf(<<a.objtype, a.objid, a.key>>))) =>
              LET r == AddObjectAttribute(Store, a) IN
              /\ r.exc = ""
              /\ r.objs = ooi_objects
              /\ r.warns = IF a.list_dup_ok THEN warnings
                            ELSE Append(warnings, Warning(a.objid, "duplicate_attr_list_value",
                                                          a.objtype, a.key, None, a.value))

\* The last write repeated a value of a list of two or more values without
\* list_dup_ok: the warning is the last of the log and the value is stored once.
C3_Witness ==
    /\ call.op = "put"
    /\ ~call.a.list_dup_ok
    /\ <<"node", "N1", "l">> \in ListAttrs
    /\ Len(ItemsOf(<<"node", "N1", "l">>)) >= 2
    /\ warnings # <<>>
    /\ warnings[Len(warnings)] = Warning("N1", "duplicate_attr_list_value", "node", "l",
                                          None, call.a.value)
    /\ Cardinality({i \in 1..Len(ItemsOf(<<"node", "N1", "l">>)) :
                        ItemsOf(<<"node", "N1", "l">>)[i] = call.a.value}) = 1

\* C4: when every list write is made with list_sort true, every stored list
\* is in ascending order in every reachable state.
C4_SortedListsAscending ==
    \A p \in ListAttrs :
        \A i, j \in 1..Len(ItemsOf(p)) : i < j => ValueLess(ItemsOf(p)[i], ItemsOf(p)[j])

\* The value written last was appended to a list of two values and sorted to
\* its front.
C4_Witness ==
    /\ call.op = "put"
    /\ raised = ""
    /\ ~call.a.list_dup_ok
    /\ warnings = <<>>
    /\ <<"node", "N1", "l">> \in ListAttrs
    /\ Len(ItemsOf(<<"node", "N1", "l">>)) = 3
    /\ ItemsOf(<<"node", "N1", "l">>)[1] = call.a.value

(***************************************************************************)
(* SpecOrder: up to MaxWrites store calls on a fresh engine, remembered in *)
(* applied, so that the graph can be compared with the graph every other   *)
(* order of the same calls leaves.                                         *)
(***************************************************************************)
ScalarCall(objid, key, value, change_ok) ==
    Args("node", objid, key, value, FALSE, FALSE, change_ok, TRUE, EmptyMapping, <<>>, <<>>)

ListCall(objid, key, value, list_sort, kwargs, korder) ==
    Args("node", objid, key, value, TRUE, FALSE, FALSE, list_sort, EmptyMapping, kwargs, korder)

OrderCalls ==
    {ScalarCall("N1", "a", v, c) : v \in StoreValues, c \in BOOLEAN}
    \cup {ListCall("N1", "l", v, srt, <<>>, <<>>) : v \in StoreValues, srt \in BOOLEAN}
    \cup {ListCall("N1", "l", Str("x"), TRUE, "s" :> Str("x"), <<"s">>),
          ScalarCall("N1", "l", Str("y"), FALSE),
          Args("node", "N1", "", None, FALSE, FALSE, FALSE, TRUE, EmptyMapping,
               "s" :> Str("y"), <<"s">>),
          ScalarCall("N2", "a", Str("x"), FALSE),
          ListCall("N2", "l", Str("x"), TRUE, <<>>, <<>>),
          ScalarCall("", "a", Str("x"), FALSE)}

OrderPut ==
    \E a \in OrderCalls :
        LET r == AddObjectAttribute(Store, a) IN
        /\ Len(applied) < MaxWrites
        /\ ooi_objects' = r.objs
        /\ ooi_obj_attrs' = r.attrs
        /\ warnings' = r.warns
        /\ raised' = r.exc
        /\ call' = [op |-> "put"]
        /\ applied' = Append(applied, a)
        /\ UNCHANGED engine

SpecOrder == InitStore /\ [][OrderPut]_vars

\* The store after the calls of q, made in order on a fresh engine; a call
\* that raises leaves what it did before raising.
RECURSIVE Replay(_)
Replay(q) ==
    IF q = <<>> THEN [objs |-> <<>>, attrs |-> <<>>, warns |-> <<>>]
    ELSE AsStore(AddObjectAttribute(Replay(SubSeq(q, 1, Len(q) - 1)), q[Len(q)]))

\* The calls of applied in every order.
Orderings ==
    {[i \in 1..Len(applied) |-> applied[f[i]]] : f \in Permutations(1..Len(applied))}

SameIdsAndNames(g, h) ==
    /\ DOMAIN g = DOMAIN h
    /\ \A t \in DOMAIN g :
          /\ DOMAIN g[t] = DOMAIN h[t]
          /\ \A i \in DOMAIN g[t] : DOMAIN g[t][i] = DOMAIN h[t][i]

\* The calls of applied that write the attribute key of object objid.
WritesTo(objid, key) ==
    {i \in 1..Len(applied) :
        /\ applied[i].objid = objid
        /\ \/ applied[i].key # "" /\ MapKey(applied[i].mapping, applied[i].key) = key
           \/ \E n \in DOMAIN applied[i].kwargs : MapKey(applied[i].mapping, n) = key}

IsSortedListWrite(a, key) ==
    a.key # "" /\ MapKey(a.mapping, a.key) = key /\ a.value_is_list /\ a.list_sort

IsListWrite(a, key) ==
    a.key # "" /\ MapKey(a.mapping, a.key) = key /\ a.value_is_list

NoMixedWrites ==
    \A objid \in {"N1", "N2"}, key \in {"a", "l", "s"} :
        \A i, j \in WritesTo(objid, key) :
            (applied[i].key # "" /\ MapKey(applied[i].mapping, applied[i].key) = key
                /\ applied[i].value_is_list)
            <=> (applied[j].key # "" /\ MapKey(applied[j].mapping, applied[j].key) = key
                    /\ applied[j].value_is_list)

MaxExtra == 1

AttrRow(idcolumn, id, attribute, value, statics) ==
    (idcolumn :> id) @@ [Attribute |-> attribute, AttributeValue |-> value] @@ statics

NodeRow(id, name, parent, platform, agent_type, start, clone, lat, lon, depth) ==
    "Reference ID" :> id @@ "Full Name" :> name @@ "Name Extension" :> ""
    @@ "Parent Reference ID" :> parent @@ "Platform Reference ID" :> platform
    @@ "Platform Configuration Type" :> "" @@ "Platform Agent Type" :> agent_type
    @@ "SAF" :> "Yes" @@ "Self Port" :> "" @@ "Uplink Node" :> "" @@ "Uplink Port" :> ""
    @@ "Start Deployment Cruise" :> start @@ "Clone" :> clone @@ "Push" :> ""
    @@ "lat" :> lat @@ "lon" :> lon @@ "depth" :> depth

InstRow(id, start, clone, push, lat, lon, depth_min, depth_max) ==
    "Reference ID" :> id @@ "First Deploy Date" :> start @@ "Clone" :> clone
    @@ "Push" :> push @@ "lat" :> lat @@ "lon" :> lon @@ "depth_min" :> depth_min
    @@ "depth_max" :> depth_max

AgentRow(code, path, acquisition) ==
    "Code" :> code @@ "Name" :> code @@ "Agent Type" :> "" @@ "Node Types" :> ""
    @@ "RT Control Path" :> "" @@ "RT Data Path" :> path
    @@ "RT Data Acquisition" :> acquisition @@ "Full Data Acquisition" :> ""
    @@ "Marine-CI Interface Location" :> ""

SeriesRow(code, series, ia, ia_code, dart, dart_code, first_avail) ==
    "Class Code" :> code @@ "Series" :> series @@ "IA Code" :> ia_code
    @@ "DA RT Code" :> dart_code @@ "DA PR Code" :> "" @@ "IA" :> ia @@ "DA RT" :> dart
    @@ "DA PR" :> "No" @@ "First Availability" :> first_avail @@ "Connection" :> ""
    @@ "Tier 1" :> "Yes"

CatalogRow(refid, class, series, subseries, makemodel, nodetype) ==
    [ReferenceDesignator |-> refid, SClass_PublicID |-> class, SSeries_PublicID |-> series,
     SSubseries_PublicID |-> subseries, MMInstrument_PublicID |-> makemodel,
     Ready_For_2013_ |-> "Yes", Textbox11 |-> nodetype]

QCRow(refid, class, dpl) ==
    [ReferenceDesignator |-> refid, SClass_PublicID |-> class, Data_Product_With_Level |-> dpl]

ProductRow(dp_type, level, class) ==
    [Data_Product_Identifier |-> dp_type, Data_Product_Level1 |-> level,
     Data_Product_Name |-> "Density", Units |-> "kg m-3", DPS_DCN_s_ |-> "",
     Processing_Flow_Diagram_DCN_s_ |-> "", Instrument_Class |-> class]

SubsiteRow(id, name, lat_north, lat_south) ==
    "Reference ID" :> id @@ "Full Name" :> name @@ "Local Name" :> "" @@ "Site Name" :> ""
    @@ "lat_north" :> lat_north @@ "lat_south" :> lat_south @@ "lon_east" :> ""
    @@ "lon_west" :> "" @@ "depth_min" :> "" @@ "depth_max" :> ""

\* The designators of the inventory.
TemplateNode == "CE01ISSM-MF005"
CloneNode == "CE01ISSM-MF006"
TemplateInst == "CE01ISSM-MF005-01-PPSDNA000"
CloneInst == "CE01ISSM-MF005-02-PPSDNA000"

Inventory ==
    "AttributeReportClass" :>
        <<AttrRow("Class", "PPSDN", "Description", "Sampler", [Class_Name |-> "PPS"])>>
    @@ "AttributeReportDataProducts" :>
        <<[Data_Product_Identifier |-> "DENSITY", Data_Product_Level |-> "2",
           Attribute |-> "Regime(s)", AttributeValue |-> "Ocean",
           Data_Product_Name |-> "Density"]>>
    @@ "AttributeReportMakeModel" :>
        <<[Make_Model |-> "non-commercial PPSDN", Attribute |-> "", Attribute_Value |-> "",
           Manufacturer |-> "", Make_Model_Description |-> ""]>>
    @@ "AttributeReportSeries" :>
        <<[Class |-> "PPSDN", Series |-> "A", Attribute |-> "Description",
           AttributeValue |-> "Series A", Series_Name |-> "A"]>>
    @@ "DataQCLookupTables" :> <<QCRow(TemplateInst, "PPSDN", "DENSITY (L2)")>>
    @@ "DataProductSpreadsheet" :> <<ProductRow("DENSITY", "L2", "PPSDN")>>
    @@ "MAP:Sites" :>
        <<"Reference ID" :> "CE01" @@ "Full Name" :> "Oregon Line" @@ "Name Extension" :> "">>
    @@ "MAP:Subsites" :> <<SubsiteRow("CE01ISSM", "Oregon Inshore", "44.7", "44.5")>>
    @@ "MAP:Nodes" :>
        <<NodeRow(TemplateNode, "Mooring", "", TemplateNode, "PA1", "2014-06-01", "",
                  "44.6", "-124.1", "25"),
          NodeRow(CloneNode, "Mooring 2", "", CloneNode, "", "", TemplateNode, "", "", "")>>
    @@ "MAP:Instruments" :>
        <<InstRow(TemplateInst, "2015-01-01", "", "", "44.6", "-124.1", "0", "25")>>
    @@ "MAP:PlatformAgents" :> <<AgentRow("PA1", "Direct", "Partial")>>
    @@ NoFiles

\* The inventory with a position and an agent type on the clone node and a
\* mapping row for the instrument below it that the clone pass also copies
\* from the template.
InventoryWithOwnInstrument ==
    [Inventory EXCEPT
        !["MAP:Nodes"] =
            <<NodeRow(TemplateNode, "Mooring", "", TemplateNode, "PA1", "2014-06-01", "",
                      "44.6", "-124.1", "25"),
              NodeRow(CloneNode, "Mooring 2", "", CloneNode, "PA1", "", TemplateNode,
                      "45", "-125", "30")>>,
        !["MAP:Instruments"] =
            <<InstRow(TemplateInst, "2015-01-01", "", "", "44.6", "-124.1", "0", "25"),
              InstRow("CE01ISSM-MF006-01-PPSDNA000", "2016-03-01", "", "", "45", "-125",
                      "1", "2")>>]

\* The inventory with a MAP:Series row for the series of its instrument and
\* a MAP:DataAgents row for the agent of the series.
InventoryWithSeries ==
    [Inventory EXCEPT
        !["MAP:Series"] = <<SeriesRow("PPSDN", "A", "Yes", "D1000", "Yes", "DART1", "2014-02")>>,
        !["MAP:DataAgents"] =
            <<"Agent Code" :> "DART1" @@ "Active" :> "Yes" @@ "Present" :> "Yes">>]

\* A further platform the inventories below add.
BuoyNode == "CE01ISSM-MF007"

\* The inventory with a platform that names itself as its parent.
InventoryWithSelfParent ==
    [InventoryWithSeries EXCEPT
        !["MAP:Nodes"] =
            @ \o <<NodeRow(BuoyNode, "Buoy", BuoyNode, BuoyNode, "PA1", "2014-06-01", "",
                           "44.6", "-124.1", "25")>>]

\* The inventory with two platforms, the one that carries the instrument
\* naming the other one as its parent.
InventoryWithNestedPlatform ==
    [InventoryWithSeries EXCEPT
        !["MAP:Nodes"] =
            <<NodeRow(TemplateNode, "Mooring", BuoyNode, TemplateNode, "PA1", "2014-06-01", "",
                      "44.6", "-124.1", "25"),
              NodeRow(BuoyNode, "Buoy", "", BuoyNode, "PA1", "2014-07-01", "",
                      "44.6", "-124.1", "25")>>]

\* The inventory with two platforms that name each other as their parents.
InventoryWithParentCycle ==
    [InventoryWithSeries EXCEPT
        !["MAP:Nodes"] =
            <<NodeRow(TemplateNode, "Mooring", BuoyNode, TemplateNode, "PA1", "2014-06-01", "",
                      "44.6", "-124.1", "25"),
              NodeRow(BuoyNode, "Buoy", TemplateNode, BuoyNode, "PA1", "2014-07-01", "",
                      "44.6", "-124.1", "25")>>]

\* One row of MAP:AgentMap.
AgentMapRow(series, node_type, agent_code, rd_prefix) ==
    "Instrument Series" :> series @@ "Node Type" :> node_type @@ "Agent Code" :> agent_code
    @@ "RD Prefix" :> rd_prefix

\* Rows of a decomposed report: a longitude and an id for a valid identifier,
\* and a longitude for an invalid one.
ReportRows(idcolumn, valid, invalid, statics) ==
    {AttrRow(idcolumn, valid, p[1], p[2], statics) :
        p \in {<<"longitude", "70">>, <<"id", "ZZ">>}}
    \cup {AttrRow(idcolumn, invalid, "longitude", "70", statics)}

\* The further rows a file can hold.
Extra ==
    "NodeTypes" :> {[LNodeType |-> "MF", Name |-> "Mooring"], [LNodeType |-> "", Name |-> ""]}
    @@ "AttributeReportArrays" :> ReportRows("Array", "CE", "C1", [Array_Name |-> "Endurance"])
    @@ "AttributeReportClass" :> ReportRows("Class", "PPSDN", "X", [Class_Name |-> "PPS"])
    @@ "AttributeReportDataProducts" :>
        {[Data_Product_Identifier |-> id, Data_Product_Level |-> "2",
          Attribute |-> "change_ok", AttributeValue |-> "1", Data_Product_Name |-> "Density"] :
            id \in {" DENSITY", "DENS"}}
    @@ "AttributeReportFamilies" :>
        {AttrRow("Family", id, "Description", "x", [Family_Name |-> "Samplers"]) :
            id \in {"SAMPLERS", ""}}
    @@ "AttributeReportMakeModel" :>
        {[Make_Model |-> "non-commercial PPSDN", Attribute |-> "longitude",
          Attribute_Value |-> "70", Manufacturer |-> "WHOI", Make_Model_Description |-> ""]}
    @@ "AttributeReportNodes" :>
        ReportRows("Node", TemplateNode, "CE01ISSM", [Node_Type |-> "MF", Node_Site_Sequence |-> "5"])
        \cup {AttrRow("Node", TemplateNode, "longitude", v,
                      [Node_Type |-> "MF", Node_Site_Sequence |-> "5"]) : v \in {"", "east"}}
    @@ "AttributeReportPorts" :> ReportRows("Port", "CE01ISSM-MF005-01", "CE01ISSM-MF005-1", <<>>)
    @@ "AttributeReportReferenceDesignator" :>
        ReportRows("Reference_Designator", TemplateInst, TemplateNode, [Class |-> "PPSDN"])
        \cup {AttrRow("Reference_Designator", "CE01ISSM-MF006-01-PPSDNA000",
                      "First Deployment Date", "2013", [Class |-> "PPSDN"])}
    @@ "AttributeReportSeries" :>
        {AttrRow("Class", class, "longitude", "70", [Series |-> "A", Series_Name |-> "A"]) :
            class \in {"PPSDN", "x"}}
    @@ "AttributeReportSites" :> ReportRows("Site", "CE01", "CE1", [Site_Name |-> "Oregon"])
    @@ "AttributeReportSubseries" :>
        {AttrRow("Class", class, "Description", "x",
                 [Series |-> "A", Subseries |-> "1", Subseries_Name |-> "A1"]) :
            class \in {"PPSDN", "x"}}
    @@ "AttributeReportSubsites" :>
        ReportRows("Subsite", "CE01ISSM", "CE01", [Subsite_Name |-> "Inshore"])
    @@ "InstrumentCatalogFull" :>
        {CatalogRow(TemplateInst, "PPSDN", "A", "1", mm, "MF (Mooring)") :
            mm \in {"", "non-commercial PPSDN"}}
        \cup {CatalogRow("", "PPSDN", "A", "1", "", "MF")}
    @@ "DataQCLookupTables" :>
        {QCRow(TemplateInst, "PPSDN", dpl) : dpl \in {"DENSITY (L2)", "PRESWAT (L1)"}}
        \cup {QCRow(CloneInst, "PPSDN", "DENSITY_L2"), QCRow("CE01", "PPSDN", "DENSITY"),
              QCRow("", "PPSDN", "DENSITY (L2)")}
    @@ "DataProductSpreadsheet" :> {ProductRow("DENSITY", "L2", "CTDBP"), ProductRow("PRESWAT", "L1", "PPSDN")}
    @@ "AllSensorTypeCounts" :> {[Class |-> " PPSDN ", Family |-> "SAMPLERS"]}
    @@ "MAP:Arrays" :> {"Reference ID" :> "CE" @@ "Name" :> "Coastal Endurance"}
    @@ "MAP:Sites" :>
        {"Reference ID" :> "CE01" @@ "Full Name" :> name @@ "Name Extension" :> "" :
            name \in {"Oregon Line", ""}}
    @@ "MAP:Subsites" :>
        {SubsiteRow("CE01ISSM", "Oregon Inshore", n, "44.5") : n \in {"", "44.7", "north"}}
    @@ "MAP:NodeType" :>
        {"Code" :> "MF" @@ "Name" :> name @@ "Composite Name" :> "" @@ "PA Code" :> "PA1"
         @@ "Platform Family" :> "" @@ "Platform Type" :> "" : name \in {"Mooring", ""}}
    @@ "MAP:Nodes" :>
        {NodeRow("CE01ISSM-MF007", "Riser", TemplateNode, TemplateNode, "PA1", "", "",
                 "44.6", "-124.1", "25"),
         NodeRow("CE01ISSM-MF007", "Mooring 3", "", "CE01ISSM-MF007", "PA1", "", CloneNode,
                 "", "", ""),
         NodeRow("CE01ISSM-MF007", "Mooring 3", "", "CE01ISSM-MF007", "PA1", "",
                 "CE01ISSM-MF009", "", "", ""),
         NodeRow("CE01ISSM-MF007", "Buoy", "", CloneNode, "PA1", "2014-06-01", "",
                 "44.6", "-124.1", "25"),
         NodeRow(CloneNode, "", "", "", "PA2", "2013", "", "44", "", ""),
         NodeRow("MF", "Mooring", "", "", "", "", "", "", "", ""),
         "Ignore" :> "Yes" @@ "Reference ID" :> "CE01ISSM-MF008"}
    @@ "MAP:Instruments" :>
        {InstRow("CE01ISSM-MF006-01-PPSDNA000", "2016", "", "", "45", "-125", "1", "2"),
         InstRow(TemplateInst, "2016", CloneInst, "Yes", "", "", "", ""),
         InstRow(CloneInst, "", TemplateInst, "", "44.7", "", "0", "25"),
         InstRow(CloneInst, "", "CE01ISSM-MF005-03-PPSDNA000", "", "44.7", "-124.2", "", ""),
         InstRow("CE01ISSM-MF005-03-CTDBPA000", "", "", "", "44.6", "-124.1", "0", "25"),
         "Ignore" :> "Yes" @@ "Reference ID" :> "CE01ISSM-MF005-04-PPSDNA000"}
    @@ "MAP:PlatformAgents" :> {AgentRow("PA1", "File Transfer", ""), AgentRow("", "", "")}
    @@ "MAP:Series" :>
        {SeriesRow("PPSDN", "A", "Yes", "D1000", "Yes", "DART1", "2014-02"),
         SeriesRow("PPSDN", "A", "No", "NA", "No", "", ""),
         SeriesRow("CTDBP", "A", "Yes", "IA1", "No", "", ""),
         SeriesRow("PPSDN", "", "Yes", "IA1", "No", "", "")}
    @@ "MAP:InstAgents" :>
        {"Agent Code" :> code @@ "Active" :> "Yes" @@ "Present" :> "No" : code \in {"D1000", ""}}
    @@ "MAP:DataAgents" :>
        {"Agent Code" :> code @@ "Active" :> "Yes" @@ "Present" :> "No" : code \in {"DART1", ""}}
    @@ "MAP:AgentMap" :>
        {"Instrument Series" :> series @@ "Node Type" :> "MF" @@ "Agent Code" :> "DART1"
         @@ "RD Prefix" :> "CE01" : series \in {"PPSDNA", "CTDBPA"}}
    @@ "MAP:ModelMap" :>
        {"Instrument Series" :> series @@ "Primary Series" :> "PPSDNA" : series \in {"PPSDNB", ""}}
    @@ "MAP:DPS" :>
        {"Code" :> "DENSITY" @@ "Ref Type" :> ref @@ "Document Name" :> "Density"
         @@ "Variant" :> "" @@ "URL" :> "DPS" : ref \in {"DPS", "id", ""}}

\* The inputs made from base by putting up to n further rows into it.
RECURSIVE WithExtra(_, _)
WithExtra(base, n) ==
    IF n = 0 THEN {base}
    ELSE LET less == WithExtra(base, n - 1)
             \* q with x put at index i.
             InsertAt(q, i, x) == SubSeq(q, 1, i - 1) \o <<x>> \o SubSeq(q, i, Len(q))
         IN
         less \cup UNION {UNION {{[b EXCEPT ![f] = InsertAt(b[f], i, x)] :
                                      x \in Extra[f], i \in {1, Len(b[f]) + 1}} :
                                  f \in DOMAIN Extra} :
                           b \in less}

\* What extract_ooi_assets can find in its files.
Inputs ==
    WithExtra(NoFiles, MaxExtra) \cup WithExtra(Inventory, MaxExtra)
    \cup {InventoryWithOwnInstrument, InventoryWithSeries, InventoryWithSelfParent,
          InventoryWithNestedPlatform, InventoryWithParentCycle}

(***************************************************************************)
(* Spec: extract_ooi_assets on the files of an input, one step per row and *)
(* per post-processing pass. pc is where the extraction is; it is          *)
(* "aborted" once an exception has left extract_ooi_assets.                *)
(***************************************************************************)
Init == Constructed /\ files \in Inputs

\* The first category from c on whose file has a row, 0 when there is none.
FirstCategory(c) ==
    LET left == {d \in c..Len(Categories) : files[Categories[d]] # <<>>} IN
    IF left = {} THEN 0 ELSE CHOOSE d \in left : \A e \in left : d <= e

\* Lines 105-133: on to the next row, the next category, or post-processing.
Advance ==
    IF pos < Len(files[Categories[cat]])
    THEN pc' = "parse" /\ cat' = cat /\ pos' = pos + 1
    ELSE LET d == FirstCategory(cat + 1) IN
         IF d = 0 THEN pc' = "add_D1000" /\ UNCHANGED <<cat, pos>>
         ELSE pc' = "parse" /\ cat' = d /\ pos' = 1

\* extract_ooi_assets without the test of _extracted.
ExtractAlways ==
    /\ pc \in {"idle", "done", "aborted"}
    /\ call' = [op |-> "extract"]
    /\ ooi_objects' = <<>>
    /\ ooi_obj_attrs' = <<>>
    /\ warnings' = <<>>
    /\ raised' = ""
    /\ new_insts' = <<>>
    /\ iteration' = <<>>
    /\ LET d == FirstCategory(1) IN
       IF d = 0 THEN pc' = "add_D1000" /\ cat' = 0 /\ pos' = 0
       ELSE pc' = "parse" /\ cat' = d /\ pos' = 1
    /\ UNCHANGED <<applied, files, child_devices, extracted, analysis, resource_ds>>

\* Lines 29-104: the entry of extract_ooi_assets; nothing happens once an
\* extraction has completed.
Extract ==
    /\ pc \in {"idle", "done", "aborted"}
    /\ call' = [op |-> "extract"]
    /\ IF extracted
       THEN UNCHANGED <<ooi_objects, ooi_obj_attrs, warnings, raised, applied, engine>>
       ELSE /\ ooi_objects' = <<>>
            /\ ooi_obj_attrs' = <<>>
            /\ warnings' = <<>>
            /\ raised' = ""
            /\ new_insts' = <<>>
            /\ iteration' = <<>>
            /\ LET d == FirstCategory(1) IN
               IF d = 0 THEN pc' = "add_D1000" /\ cat' = 0 /\ pos' = 0
               ELSE pc' = "parse" /\ cat' = d /\ pos' = 1
            /\ UNCHANGED <<applied, files, child_devices, extracted, analysis, resource_ds>>

\* The row the extraction is at.
Row == files[Categories[cat]][pos]

\* Lines 125-128: catfunc(row) for the row the extraction is at, r being
\* what catfunc leaves.
Parse(category, r) ==
    /\ pc = "parse"
    /\ Categories[cat] = category
    /\ LET row == files[category][pos]
       IN /\ ooi_objects' = r.objs
          /\ ooi_obj_attrs' = r.attrs
          /\ warnings' = r.warns
          /\ raised' = r.exc
          /\ call' = [op |-> "parse", category |-> category, row |-> row]
          /\ IF r.exc = "" THEN Advance
             ELSE pc' = "aborted" /\ UNCHANGED <<cat, pos>>
    /\ UNCHANGED <<applied, files, child_devices, new_insts, iteration, extracted, analysis, resource_ds>>

\* One pass of _post_process, which leaves the graph and exception of g.
PostStep(here, next, g) ==
    /\ pc = here
    /\ ooi_objects' = g.objs
    /\ raised' = g.exc
    /\ pc' = IF g.exc = "" THEN next ELSE "aborted"
    /\ call' = [op |-> here]
    /\ UNCHANGED <<ooi_obj_attrs, warnings, applied, files, cat, pos, extracted, analysis, resource_ds>>

\* The orders in which the objects of a type can be iterated. A dict keeps
\* its order as long as no key is added to it.
KeyOrders(objs, objtype) == Orders(DOMAIN get_type_assets(objs, objtype))

\* Line 862
Post_add_D1000 ==
    /\ PostStep("add_D1000", "nodetype_names", add_D1000(ooi_objects))
    /\ UNCHANGED <<child_devices, new_insts, iteration>>

\* Lines 864-867
Post_nodetype_names ==
    /\ PostStep("nodetype_names", "ssites", NameNodeTypes(ooi_objects))
    /\ UNCHANGED <<child_devices, new_insts, iteration>>

\* Lines 869-883
Post_ssites ==
    /\ LET RECURSIVE Loop(_, _)
           Loop(g, keys) ==
               IF keys = <<>> \/ g.exc # "" THEN g
               ELSE Loop(SsiteBody(g, Head(keys)), Tail(keys))
       IN \E order \in KeyOrders(ooi_objects, "ssite") :
              PostStep("ssites", "osites", Loop(Done(ooi_objects), order))
    /\ UNCHANGED <<child_devices, new_insts, iteration>>

\* Lines 885-894
Post_osites ==
    /\ LET RECURSIVE Loop(_, _)
           Loop(g, keys) ==
               IF keys = <<>> \/ g.exc # "" THEN g
               ELSE Loop(OsiteBody(g, Head(keys)), Tail(keys))
       IN \E order \in KeyOrders(ooi_objects, "osite") :
              PostStep("osites", "child_devices", Loop(Done(ooi_objects), order))
    /\ UNCHANGED <<child_devices, new_insts, iteration>>

\* Line 896
Post_child_devices ==
    /\ PostStep("child_devices", "nodes", Done(ooi_objects))
    /\ \E node_order \in KeyOrders(ooi_objects, "node"),
          inst_order \in KeyOrders(ooi_objects, "instrument") :
           /\ iteration' = [node |-> node_order, instrument |-> inst_order]
           /\ child_devices' = _get_child_devices(ooi_objects, node_order, inst_order)
    /\ UNCHANGED new_insts

\* Lines 901-943
Post_nodes ==
    /\ LET RECURSIVE Loop(_, _)
           Loop(g, keys) ==
               IF keys = <<>> \/ g.exc # "" THEN g
               ELSE Loop(NodeBody(g, Head(keys), child_devices), Tail(keys))
       IN PostStep("nodes", "instruments", Loop(Done(ooi_objects), iteration.node))
    /\ UNCHANGED <<child_devices, new_insts, iteration>>

\* Lines 945-971; the pass over the series only logs.
Post_instruments ==
    /\ LET RECURSIVE Loop(_, _)
           Loop(g, keys) ==
               IF keys = <<>> \/ g.exc # "" THEN g
               ELSE Loop(InstBody(g, Head(keys)), Tail(keys))
       IN PostStep("instruments", "clone_nodes", Loop(Done(ooi_objects), iteration.instrument))
    /\ UNCHANGED <<child_devices, new_insts, iteration>>

\* Lines 973-1010
Post_clone_nodes ==
    /\ LET cloned == CloneNodes([objs |-> ooi_objects, exc |-> "", insts |-> <<>>],
                                iteration.node, child_devices)
       IN /\ PostStep("clone_nodes", "clone_instruments", cloned)
          /\ new_insts' = IF cloned.exc = "" THEN cloned.insts ELSE <<>>
    /\ UNCHANGED <<child_devices, iteration>>

\* Lines 1012-1024
Post_clone_instruments ==
    /\ PostStep("clone_instruments", "reindex",
                CloneInstruments(Done(ooi_objects), iteration.instrument))
    /\ UNCHANGED <<child_devices, new_insts, iteration>>

\* Lines 1026-1030
Post_reindex ==
    IF new_insts = <<>>
    THEN /\ PostStep("reindex", "checks", Done(ooi_objects))
         /\ UNCHANGED <<child_devices, new_insts, iteration>>
    ELSE LET objs == Merge(ooi_objects, new_insts) IN
         /\ PostStep("reindex", "checks", Done(objs))
         /\ \E inst_order \in IF DOMAIN objs["instrument"] = DOMAIN ooi_objects["instrument"]
                              THEN {iteration.instrument}
                              ELSE KeyOrders(objs, "instrument") :
                /\ iteration' = [iteration EXCEPT !.instrument = inst_order]
                /\ child_devices' = _get_child_devices(objs, iteration.node, inst_order)
         /\ UNCHANGED new_insts

\* Lines 136-149: _perform_ooi_checks and the end of extract_ooi_assets.
Checks ==
    /\ pc = "checks"
    /\ \E products \in KeyOrders(ooi_objects, "data_product") :
           warnings' = _checkooi_ref_exists(
                           ooi_objects,
                           _checkooi_ref_exists(ooi_objects, warnings, "instrument",
                                                "data_product_list", "data_product",
                                                iteration.instrument),
                           "data_product", "instrument_class_list", "class", products)
    /\ pc' = "done"
    /\ extracted' = TRUE
    /\ call' = [op |-> "checks"]
    /\ UNCHANGED <<ooi_objects, ooi_obj_attrs, raised, applied, files, cat, pos,
                   child_devices, new_insts, iteration, analysis, resource_ds>>

\* not end_date or deploy_date <= end_date
InTime(deploy_date, end_date) == ~Truthy(end_date) \/ deploy_date.n <= end_date.n

\* Lines 1123-1147: one iteration of the node pass with what it keeps beside
\* the graph: platform_children, deploy_platforms and the platform count.
\* The bookkeeping is reached once the two deploy dates have been compared.
AnalyzeNode(a, ooi_id, end_date) ==
    LET ooi_obj == a.objs["node"][ooi_id]
        reached == /\ HasAttr(a.objs, "node", ooi_id, "platform_id")
                   /\ ooi_obj["platform_id"].k = "str"
                   /\ HasObject(a.objs, "node", ooi_obj["platform_id"].s)
                   /\ "deploy_date" \in DOMAIN ooi_obj
                   /\ ooi_obj["deploy_date"].k = "date"
                   /\ ObjGet(a.objs["node"][ooi_obj["platform_id"].s], "deploy_date").k = "date"
        parent_id == ObjGet(ooi_obj, "parent_id")
        deployed == /\ InTime(ooi_obj["deploy_date"], end_date)
                    /\ Str(ooi_id) = ooi_obj["platform_id"]
        Kept(g) ==
            IF ~reached THEN [a EXCEPT !.exc = g.exc]
            ELSE [objs |-> g.objs,
                  exc |-> g.exc,
                  platform_children |-> IF Truthy(parent_id)
                                        THEN AddChild(a.platform_children, parent_id, ooi_id)
                                        ELSE a.platform_children,
                  deploy_platforms |-> IF deployed THEN a.deploy_platforms \cup {ooi_id}
                                       ELSE a.deploy_platforms]
    IN CHOOSE kept \in {Kept(g) : g \in {AnalyzeNodeBody([objs |-> a.objs, exc |-> a.exc], ooi_id)}} : TRUE

RECURSIVE AnalyzeNodes(_, _, _)
AnalyzeNodes(a, keys, end_date) ==
    IF keys = <<>> \/ a.exc # "" THEN a
    ELSE CHOOSE left \in {AnalyzeNodes(kept, Tail(keys), end_date) :
                              kept \in {AnalyzeNode(a, Head(keys), end_date)}} : TRUE

\* Lines 1149-1150: deploy_platforms.values() sorted by deploy date and
\* name; platforms equal in both stay in the order the dict yields them.
RECURSIVE deploy_platform_list(_, _, _)
deploy_platform_list(objs, deploy_platforms, order) ==
    IF deploy_platforms = {} THEN <<>>
    ELSE LET Before(x, y) ==
                 \/ objs["node"][x]["deploy_date"].n < objs["node"][y]["deploy_date"].n
                 \/ /\ objs["node"][x]["deploy_date"] = objs["node"][y]["deploy_date"]
                    /\ StrLess(ObjGet(objs["node"][x], "name").s, ObjGet(objs["node"][y], "name").s)
             Position(x) == CHOOSE i \in DOMAIN order : order[i] = x
             least == {x \in deploy_platforms : \A y \in deploy_platforms : ~Before(y, x)}
             first == CHOOSE x \in least : \A y \in least : Position(x) <= Position(y)
         IN <<first>> \o deploy_platform_list(objs, deploy_platforms \ {first}, order)

\* Lines 1156-1168: one iteration of the instrument pass with isite_by_node.
AnalyzeInst(a, inst_id) ==
    LET Kept(g, node_id) ==
            [objs |-> g.objs,
             exc |-> g.exc,
             isite_by_node |-> IF HasAttr(a.objs, "node", node_id, "deploy_date")
                               THEN AddChild(a.isite_by_node, Str(node_id), inst_id)
                               ELSE a.isite_by_node]
    IN CHOOSE kept \in {Kept(g, inst_rd.node_rd) :
                           g \in {AnalyzeInstBody([objs |-> a.objs, exc |-> a.exc], inst_id)},
                           inst_rd \in {OOIReferenceDesignator(inst_id)}} : TRUE

RECURSIVE AnalyzeInstruments(_, _)
AnalyzeInstruments(a, keys) ==
    IF keys = <<>> \/ a.exc # "" THEN a
    ELSE CHOOSE left \in {AnalyzeInstruments(kept, Tail(keys)) :
                              kept \in {AnalyzeInst(a, Head(keys))}} : TRUE

\* A sequence of report lines sorted by the id they are about.
RECURSIVE SortedLines(_)
SortedLines(lines) ==
    IF lines = <<>> THEN <<>>
    ELSE LET i == CHOOSE i \in DOMAIN lines :
                      \A j \in DOMAIN lines :
                         ~StrLess(lines[j].id, lines[i].id) /\ (lines[j].id = lines[i].id => i <= j)
         IN <<lines[i]>> \o SortedLines(SubSeq(lines, 1, i - 1) \o SubSeq(lines, i + 1, Len(lines)))

\* Lines 1193-1247: one iteration of the loop of follow_node_inst. w holds
\* the counters instd, insti and node of self._asset_counts,
\* deploy_instruments (its keys), deploy_dataproducts, the report lines
\* (what a line is about, not its text) and inst_lines.
FollowInst(w, ctx, node_id, inst_id) ==
    LET inst_obj == ctx.objs["instrument"][inst_id]
        deploy_date == IF "deploy_date" \in DOMAIN inst_obj THEN inst_obj["deploy_date"]
                       ELSE DEFAULT_MAX_DATE
        data_product_list == IF "data_product_list" \in DOMAIN inst_obj
                             THEN inst_obj["data_product_list"].items ELSE <<>>
        RECURSIVE Products(_, _)
        Products(deploy_dataproducts, dps) ==
            IF dps = <<>> THEN deploy_dataproducts
            ELSE Products(AddChild(deploy_dataproducts, Head(dps).s, inst_id), Tail(dps))
        Followed(agent, agent_objs) ==
            IF agent.exc # "" THEN [w EXCEPT !.exc = agent.exc]
            ELSE IF /\ Truthy(agent.code)
                    /\ \/ agent.code.s \notin DOMAIN agent_objs
                       \/ ~({"present", "active"} \subseteq DOMAIN agent_objs[agent.code.s])
            THEN [w EXCEPT !.exc = "KeyError"]
            ELSE
            LET postponed == ~InTime(deploy_date, ctx.end_date)
                line == [line |-> "instrument", id |-> inst_id, postponed |-> postponed]
                counted == IF postponed
                           THEN [w EXCEPT !.insti = @ + 1, !.inst_lines = Append(@, line)]
                           ELSE [w EXCEPT !.instd = @ + 1, !.inst_lines = Append(@, line),
                                          !.deploy_instruments = @ \cup {inst_id}]
            IN IF \E i \in DOMAIN data_product_list : ~StrContains(data_product_list[i].s, "_")
               THEN [counted EXCEPT !.exc = "ValueError"]
               ELSE [counted EXCEPT !.deploy_dataproducts = Products(@, data_product_list)]
    IN IF ~HasAttr(ctx.objs, "node", node_id, "platform_agent_type")
       THEN [w EXCEPT !.exc = "KeyError"]
       ELSE CHOOSE followed \in
                {Followed(agent, get_type_assets(ctx.objs, IF is_data THEN "dataagent"
                                                          ELSE "instagent")) :
                    agent \in {get_agent_code(ctx.objs, inst_id)},
                    is_data \in {is_dataagent(OOIReferenceDesignator(inst_id))}} : TRUE

\* follow_node_inst(node_id, level)
RECURSIVE follow_node_inst(_, _, _, _)
follow_node_inst(w, ctx, node_id, inst_ids) ==
    IF inst_ids = <<>> \/ w.exc # "" THEN w
    ELSE CHOOSE left \in {follow_node_inst(followed, ctx, node_id, Tail(inst_ids)) :
                              followed \in {FollowInst(w, ctx, node_id, Head(inst_ids))}} : TRUE

\* report_lines.append(the line of the node); report_lines.extend(inst_lines)
NodeLines(w, kind, node_id) ==
    [w EXCEPT !.report = @ \o <<[line |-> kind, id |-> node_id, postponed |-> FALSE]>>
                           \o SortedLines(w.inst_lines),
              !.inst_lines = <<>>]

\* follow_child_nodes(level, child_nodes). path holds the nodes whose
\* children are being followed: a node of path that is emitted again is
\* followed in the same way without end, which the interpreter ends with
\* RuntimeError (maximum recursion depth exceeded).
RECURSIVE follow_child_nodes(_, _, _, _)
follow_child_nodes(w, ctx, child_nodes, path) ==
    IF child_nodes = <<>> \/ w.exc # "" THEN w
    ELSE LET ch_id == Head(child_nodes)
             ch_obj == ctx.objs["node"][ch_id]
             deploy_date == IF "deploy_date" \in DOMAIN ch_obj THEN ch_obj["deploy_date"]
                            ELSE DEFAULT_MAX_DATE
             counted == [w EXCEPT !.node = @ + 1]
             Followed(agent) ==
                 IF agent.exc # "" THEN [counted EXCEPT !.exc = agent.exc]
                 ELSE CHOOSE left \in
                          {IF insts.exc # "" THEN insts
                           ELSE follow_child_nodes(NodeLines(insts, "node", ch_id), ctx,
                                                   Children(ctx.platform_children, ch_id),
                                                   path \cup {ch_id}) :
                              insts \in {follow_node_inst(counted, ctx, ch_id,
                                                          Children(ctx.isite_by_node, ch_id))}} : TRUE
         IN CHOOSE left \in
                {follow_child_nodes(followed, ctx, Tail(child_nodes), path) :
                    followed \in
                        {IF ~InTime(deploy_date, ctx.end_date) THEN w
                         ELSE IF ch_id \in path THEN [counted EXCEPT !.exc = "RuntimeError"]
                         ELSE CHOOSE f \in {Followed(agent) :
                                                agent \in {get_agent_code(ctx.objs, ch_id)}} : TRUE}} : TRUE

\* Lines 1189-1293: the loop over deploy_platform_list.
RECURSIVE follow_platforms(_, _, _)
follow_platforms(w, ctx, platforms) ==
    IF platforms = <<>> \/ w.exc # "" THEN w
    ELSE LET pnode_id == Head(platforms)
             Followed(agent) ==
                 IF agent.exc # "" THEN [w EXCEPT !.exc = agent.exc]
                 ELSE CHOOSE left \in
                          {IF insts.exc # "" THEN insts
                           ELSE follow_child_nodes(NodeLines(insts, "platform", pnode_id), ctx,
                                                   Children(ctx.platform_children, pnode_id), {}) :
                              insts \in {follow_node_inst(w, ctx, pnode_id,
                                                          Children(ctx.isite_by_node, pnode_id))}} : TRUE
         IN CHOOSE left \in
                {follow_platforms(followed, ctx, Tail(platforms)) :
                    followed \in {Followed(agent) :
                                     agent \in {get_agent_code(ctx.objs, pnode_id)}}} : TRUE

\* The cutoff dates analyze_ooi_assets is called with; None is no cutoff.
EndDates == {None, Date(2014, 12, 31), Date(2015, 1, 1)}

\* analyze_ooi_assets(end_date) on the graph objs whose dicts iterate in the
\* orders given: the graph it leaves, the exception the two passes and the
\* whole method end with, the local platform_children and the attributes it
\* assigns on self.
analyze_ooi_assets(objs, orders, end_date) ==
    LET Walk(nodes, insts) ==
            follow_platforms(
                [exc |-> insts.exc, instd |-> 0, insti |-> 0, node |-> 0,
                 deploy_instruments |-> {}, deploy_dataproducts |-> <<>>,
                 report |-> <<>>, inst_lines |-> <<>>],
                [objs |-> insts.objs, end_date |-> end_date,
                 platform_children |-> nodes.platform_children,
                 isite_by_node |-> insts.isite_by_node],
                IF insts.exc = ""
                THEN deploy_platform_list(insts.objs, nodes.deploy_platforms, orders.node)
                ELSE <<>>)
        Left(nodes, insts, walk) ==
            LET counts == [platform |-> Cardinality(nodes.deploy_platforms),
                           node |-> walk.node, instd |-> walk.instd, insti |-> walk.insti]
            IN [objs |-> insts.objs,
                exc |-> walk.exc,
                passes |-> insts.exc,
                platform_children |-> nodes.platform_children,
                assigned |-> IF walk.exc # "" THEN "_asset_counts" :> counts
                             ELSE "_asset_counts" :> counts
                                  @@ "asset_report" :> walk.report
                                  @@ "deploy_platforms" :> nodes.deploy_platforms
                                  @@ "deploy_instruments" :> walk.deploy_instruments
                                  @@ "deploy_dataproducts" :> walk.deploy_dataproducts]
        PassB(nodes) ==
            AnalyzeInstruments([objs |-> nodes.objs, exc |-> nodes.exc,
                                isite_by_node |-> <<>>], orders.instrument)
        AfterPassB(nodes, insts) ==
            CHOOSE left \in {Left(nodes, insts, walk) : walk \in {Walk(nodes, insts)}} : TRUE
        AfterPassA(nodes) ==
            CHOOSE left \in {AfterPassB(nodes, insts) : insts \in {PassB(nodes)}} : TRUE
    IN CHOOSE left \in
           {AfterPassA(nodes) :
               nodes \in {AnalyzeNodes([objs |-> objs, exc |-> "",
                                        platform_children |-> <<>>,
                                        deploy_platforms |-> {}],
                                       orders.node, end_date)}} : TRUE

\* analyze_ooi_assets(end_date), called once on the graph of a completed
\* extraction. call keeps the cutoff, the exception the two passes ended
\* with and the local platform_children; analysis holds the attributes the
\* method assigned on self.
Analyze ==
    /\ pc = "done"
    /\ analysis = <<>>
    /\ \E end_date \in EndDates :
          \E left \in {analyze_ooi_assets(ooi_objects, iteration, end_date)} :
             /\ ooi_objects' = left.objs
             /\ raised' = left.exc
             /\ call' = [op |-> "analyze", end_date |-> end_date,
                         passes |-> left.passes,
                         platform_children |-> left.platform_children]
             /\ analysis' = left.assigned
    /\ UNCHANGED <<ooi_obj_attrs, warnings, applied, files, pc, cat, pos, child_devices, new_insts, iteration, extracted, resource_ds>>

Next ==
    \/ Extract
    \/ Analyze
    \/ Parse("NodeTypes", _parse_NodeTypes(Store, Row))
    \/ Parse("AttributeReportArrays", _parse_AttributeReportArrays(Store, Row))
    \/ Parse("AttributeReportClass", _parse_AttributeReportClass(Store, Row))
    \/ Parse("AttributeReportDataProducts", _parse_AttributeReportDataProducts(Store, Row))
    \/ Parse("AttributeReportFamilies", _parse_AttributeReportFamilies(Store, Row))
    \/ Parse("AttributeReportMakeModel", _parse_AttributeReportMakeModel(Store, Row))
    \/ Parse("AttributeReportNodes", _parse_AttributeReportNodes(Store, Row))
    \/ Parse("AttributeReportPorts", _parse_AttributeReportPorts(Store, Row))
    \/ Parse("AttributeReportReferenceDesignator", _parse_AttributeReportReferenceDesignator(Store, Row))
    \/ Parse("AttributeReportSeries", _parse_AttributeReportSeries(Store, Row))
    \/ Parse("AttributeReportSites", _parse_AttributeReportSites(Store, Row))
    \/ Parse("AttributeReportSubseries", _parse_AttributeReportSubseries(Store, Row))
    \/ Parse("AttributeReportSubsites", _parse_AttributeReportSubsites(Store, Row))
    \/ Parse("InstrumentCatalogFull", _parse_InstrumentCatalogFull(Store, Row))
    \/ Parse("DataQCLookupTables", _parse_DataQCLookupTables(Store, Row))
    \/ Parse("DataProductSpreadsheet", _parse_DataProductSpreadsheet(Store, Row))
    \/ Parse("AllSensorTypeCounts", _parse_AllSensorTypeCounts(Store, Row))
    \/ Parse("MAP:Arrays", _parse_Arrays(Store, Row))
    \/ Parse("MAP:Sites", _parse_Sites(Store, Row))
    \/ Parse("MAP:Subsites", _parse_Subsites(Store, Row))
    \/ Parse("MAP:NodeType", _parse_NodeType(Store, Row))
    \/ Parse("MAP:Nodes", _parse_Nodes(Store, Row))
    \/ Parse("MAP:Instruments", _parse_Instruments(Store, Row))
    \/ Parse("MAP:PlatformAgents", _parse_PlatformAgents(Store, Row))
    \/ Parse("MAP:Series", _parse_Series(Store, Row))
    \/ Parse("MAP:InstAgents", _parse_InstAgents(Store, Row))
    \/ Parse("MAP:DataAgents", _parse_DataAgents(Store, Row))
    \/ Parse("MAP:AgentMap", _parse_AgentMap(Store, Row))
    \/ Parse("MAP:ModelMap", _parse_ModelMap(Store, Row))
    \/ Parse("MAP:DPS", _parse_DPS(Store, Row))
    \/ Post_add_D1000
    \/ Post_nodetype_names
    \/ Post_ssites
    \/ Post_osites
    \/ Post_child_devices
    \/ Post_nodes
    \/ Post_instruments
    \/ Post_clone_nodes
    \/ Post_clone_instruments
    \/ Post_reindex
    \/ Checks

Spec == Init /\ [][Next]_vars

(***************************************************************************)
(* Properties of an extraction                                             *)
(***************************************************************************)
\* Every object is stored under its id.
IdIsKey ==
    \A objtype \in DOMAIN ooi_objects :
        \A objid \in DOMAIN ooi_objects[objtype] :
            /\ "id" \in DOMAIN ooi_objects[objtype][objid]
            /\ ooi_objects[objtype][objid]["id"] = Str(objid)

\* The types and the keys of every type stay.
KeysKept ==
    \A objtype \in DOMAIN ooi_objects :
        /\ objtype \in DOMAIN ooi_objects'
        /\ DOMAIN ooi_objects[objtype] \subseteq DOMAIN ooi_objects'[objtype]

\* C8: while rows are parsed and the graph is post-processed, every object
\* stored under key k of a type has the attribute id equal to k, and no step
\* of the extraction removes a key from the mapping of a type (the entry of
\* extract_ooi_assets, which empties the graph for a new run, is not such a
\* step).
C8_IdIsKeyAndKeysKept ==
    /\ []IdIsKey
    /\ [][call'.op # "extract" => KeysKept]_vars

\* An extraction has completed with the D1000 class injected and the
\* instrument of the template node cloned into the clone node.
C8_Witness ==
    /\ pc = "done"
    /\ HasObject(ooi_objects, "class", "D1000")
    /\ HasObject(ooi_objects, "instrument", "CE01ISSM-MF006-01-PPSDNA000")
    /\ HasObject(ooi_objects, "instrument", TemplateInst)

\* The test a parser of a designator-bearing category applies, or would have
\* to apply, to the identifier of its row.
InvalidPrimary(category, row) ==
    CASE category = "AttributeReportArrays" -> RdKind(row.Array) # "array"
      [] category = "AttributeReportClass" -> RdKind(row.Class) # "class"
      [] category = "AttributeReportNodes" -> RdKind(row.Node) # "node"
      [] category = "AttributeReportPorts" -> RdKind(row.Port) # "port"
      [] category = "AttributeReportReferenceDesignator" ->
             RdKind(row.Reference_Designator) # "instrument"
      [] category = "AttributeReportSites" -> RdKind(row.Site) # "site"
      [] category = "AttributeReportSubsites" -> RdKind(row.Subsite) # "subsite"
      [] category \in {"AttributeReportSeries", "AttributeReportSubseries"} ->
             RdKind(row.Class \o row.Series) # "series"
      [] category = "AttributeReportDataProducts" ->
             RdKind(Strip(row.Data_Product_Identifier) \o "_L"
                    \o Strip(row.Data_Product_Level)) # "dataproduct"
      [] category = "DataQCLookupTables" ->
             ~MatchDataProductWithLevel(row.Data_Product_With_Level).ok
      [] OTHER -> FALSE

\* C9: a row of a designator-bearing category whose identifier fails the
\* validation appends one warning and writes nothing: the object graph and
\* the attribute-name registry are as before the row.
C9_InvalidRowWritesNothing ==
    [][(call'.op = "parse" /\ InvalidPrimary(call'.category, call'.row)) =>
           /\ ooi_objects' = ooi_objects
           /\ ooi_obj_attrs' = ooi_obj_attrs
           /\ Len(warnings') = Len(warnings) + 1]_vars

\* The decomposed reports the longitude rule names, with the type they write
\* and the column of the identifier.
LongitudeReports ==
    "AttributeReportArrays" :> <<"array", "Array">>
    @@ "AttributeReportNodes" :> <<"node", "Node">>
    @@ "AttributeReportPorts" :> <<"port", "Port">>
    @@ "AttributeReportReferenceDesignator" :> <<"instrument", "Reference_Designator">>
    @@ "AttributeReportSites" :> <<"site", "Site">>
    @@ "AttributeReportSubsites" :> <<"subsite", "Subsite">>

\* C10: a row of a decomposed report of arrays, nodes, ports, instruments,
\* sites or subsites with Attribute "longitude" and a non-empty value v that
\* is the first write of the attribute stores str(-1 * float(v)).
C10_LongitudeNegated ==
    [][(/\ call'.op = "parse"
        /\ call'.category \in DOMAIN LongitudeReports
        /\ call'.row.Attribute = "longitude"
        /\ call'.row.AttributeValue # "") =>
           LET objtype == LongitudeReports[call'.category][1]
               objid == call'.row[LongitudeReports[call'.category][2]]
           IN (/\ ~HasAttr(ooi_objects, objtype, objid, "longitude")
               /\ HasAttr(ooi_objects', objtype, objid, "longitude")) =>
                  ooi_objects'[objtype][objid]["longitude"]
                      = Str(NegatedLongitude(call'.row.AttributeValue))]_vars

\* The series a row of the Series or AgentMap tab refers to.
SeriesKey(category, row) ==
    IF category = "MAP:Series" THEN row["Class Code"] \o row["Series"]
    ELSE row["Instrument Series"]

\* C11: a row of the Series or AgentMap tab whose series is not in the graph
\* creates no object, changes no attribute of any type, and appends a
\* warning for the row to the warnings log.
C11_UnknownSeriesSkippedWithWarning ==
    [][(/\ call'.op = "parse"
        /\ call'.category \in {"MAP:Series", "MAP:AgentMap"}
        /\ ~HasObject(ooi_objects, "series", SeriesKey(call'.category, call'.row))) =>
           /\ ooi_objects' = ooi_objects
           /\ ooi_obj_attrs' = ooi_obj_attrs
           /\ Len(warnings') = Len(warnings) + 1]_vars

(***************************************************************************)
(* SpecCheck: one call of _checkooi_ref_exists on a small graph. The       *)
(* instruments I1 and I2 refer to data products, the data products P1 and  *)
(* P8 to classes; a type may be absent from the graph, and the warnings    *)
(* log may hold a warning of the store already.                            *)
(***************************************************************************)
\* The graphs of SpecCheck: each type is absent or holds some of its objects;
\* an attribute holding references is absent (None), a str or a list of str.
RefGraphs ==
    LET values == {None, Str("P1"), Str("P9"), List(<<>>), List(<<Str("P1")>>),
                   List(<<Str("P1"), Str("P9")>>), List(<<Str("P9"), Str("P8")>>),
                   List(<<Str("P9"), Str("P9")>>)}
        object(objid, attr, v) ==
            IF v = None THEN [x \in {"id"} |-> Str(objid)]
            ELSE [x \in {"id", attr} |-> IF x = "id" THEN Str(objid) ELSE v]
        instruments ==
            UNION {{[i \in S |-> object(i, "data_product_list", f[i])] :
                       f \in [S -> values]} : S \in SUBSET {"I1", "I2"}}
        products ==
            {[p \in S |-> object(p, "instrument_class_list", None)] :
                S \in {{}, {"P1"}, {"P1", "P8"}}}
    IN {[x \in {} |-> <<>>]}
       \cup {[x \in {"instrument"} |-> i] : i \in instruments}
       \cup {[x \in {"data_product"} |-> p] : p \in products}
       \cup {[x \in {"instrument", "data_product"} |->
                 IF x = "instrument" THEN i ELSE p] : i \in instruments, p \in products}

\* A fresh engine holding one of the graphs; the registry has the attribute
\* names of each type.
InitCheck ==
    /\ ooi_objects \in RefGraphs
    /\ ooi_obj_attrs = [t \in DOMAIN ooi_objects |->
                          UNION {DOMAIN ooi_objects[t][k] \ {"id"} : k \in DOMAIN ooi_objects[t]}]
    /\ warnings \in {<<>>, <<Warning("I1", "changed", "instrument", "name", Str("x"), Str("y"))>>}
    /\ call = [op |-> "init"]
    /\ raised = ""
    /\ applied = <<>>
    /\ files = NoFiles
    /\ pc = "idle"
    /\ cat = 0
    /\ pos = 0
    /\ child_devices = <<>>
    /\ new_insts = <<>>
    /\ iteration = <<>>
    /\ extracted = FALSE
    /\ analysis = <<>>
    /\ resource_ds = <<>>

\* The checks _perform_ooi_checks registers.
ui_checks ==
    {[objtype |-> "instrument", attr |-> "data_product_list", target_type |-> "data_product"],
     [objtype |-> "data_product", attr |-> "instrument_class_list", target_type |-> "class"]}

\* self._checkooi_ref_exists(objtype, attr, target_type), once.
RefCheck ==
    /\ call.op = "init"
    /\ \E c \in ui_checks :
       \E order \in KeyOrders(ooi_objects, c.objtype) :
           /\ warnings' = _checkooi_ref_exists(ooi_objects, warnings, c.objtype, c.attr,
                                               c.target_type, order)
           /\ call' = [op |-> "ref_exists", objtype |-> c.objtype, attr |-> c.attr,
                       target_type |-> c.target_type]
    /\ UNCHANGED <<ooi_objects, ooi_obj_attrs, raised, applied, engine>>

SpecCheck == InitCheck /\ [][RefCheck]_vars

\* The values the attribute attr of obj refers to.
RefValuesOf(obj, attr) ==
    LET v == ObjGet(obj, attr)
    IN IF v.k = "none" THEN {} ELSE IF v.k = "list" THEN Range(v.items) ELSE {v}

\* The warnings a step has appended to the log.
NewWarnings == SubSeq(warnings', Len(warnings) + 1, Len(warnings'))

\* C12: after a reference check with both types present, every value of the
\* attribute (each element of a list) is a key of the target type or the
\* check has appended a warning for that object naming that value, and
\* every warning appended names a value of its object that is not a key of
\* the target type; with a type absent exactly one general warning is
\* appended and none for any object.
C12_ReferenceIntegrity ==
    [][call'.op = "ref_exists" =>
         LET c == call'
             new == NewWarnings
         IN IF c.objtype \in DOMAIN ooi_objects /\ c.target_type \in DOMAIN ooi_objects
            THEN /\ \A k \in DOMAIN ooi_objects[c.objtype] :
                    \A v \in RefValuesOf(ooi_objects[c.objtype][k], c.attr) :
                        \/ v.s \in DOMAIN ooi_objects[c.target_type]
                        \/ \E i \in 1..Len(new) :
                               new[i] = Warning(k, "ref_exists", c.objtype, c.attr, None, v)
                 /\ \A i \in 1..Len(new) :
                        /\ new[i].id \in DOMAIN ooi_objects[c.objtype]
                        /\ new[i].new \in RefValuesOf(ooi_objects[c.objtype][new[i].id], c.attr)
                        /\ new[i].new.s \notin DOMAIN ooi_objects[c.target_type]
            ELSE /\ Len(new) = 1
                 /\ new[1].id = "GENERAL"
                 /\ new[1].kind = "ref_exists"]_vars

\* A check has run on a list with a resolving and a dangling element.
C12_Witness ==
    /\ call.op = "ref_exists"
    /\ call.objtype = "instrument"
    /\ "data_product" \in DOMAIN ooi_objects
    /\ "instrument" \in DOMAIN ooi_objects
    /\ "I1" \in DOMAIN ooi_objects["instrument"]
    /\ ObjGet(ooi_objects["instrument"]["I1"], "data_product_list") = List(<<Str("P1"), Str("P9")>>)
    /\ "P1" \in DOMAIN ooi_objects["data_product"]
    /\ \E i \in 1..Len(warnings) : warnings[i].kind = "ref_exists" /\ warnings[i].new = Str("P9")

\* C13: a reference check leaves the graph and the registry of attribute
\* names as they were; the warnings log after it starts with the log before it.
C13_CheckOnlyAppendsWarnings ==
    [][call'.op = "ref_exists" =>
         /\ ooi_objects' = ooi_objects
         /\ ooi_obj_attrs' = ooi_obj_attrs
         /\ Len(warnings') >= Len(warnings)
         /\ SubSeq(warnings', 1, Len(warnings)) = warnings]_vars

\* A check has appended a warning to a log that held one already.
C13_Witness ==
    /\ call.op = "ref_exists"
    /\ Len(warnings) >= 2
    /\ warnings[1].kind = "changed"
    /\ warnings[2].kind = "ref_exists"


\* The objects of objtype that name a template present among the objects of
\* their type.
Clones(objs, objtype) ==
    {c \in DOMAIN get_type_assets(objs, objtype) :
        LET clone_rd == ObjGet(objs[objtype][c], "clone_rd")
        IN clone_rd.k = "str" /\ clone_rd.s # "" /\ clone_rd.s \in DOMAIN objs[objtype]}

\* The clones of objtype keep every attribute they carry and have the
\* template's value for every attribute they lack.
FirstWriteWins(objtype) ==
    \A c \in Clones(ooi_objects, objtype) :
        LET before == ooi_objects[objtype][c]
            after == ooi_objects'[objtype][c]
            template == ooi_objects[objtype][before["clone_rd"].s]
        IN /\ \A k \in DOMAIN before : after[k] = before[k]
           /\ \A k \in (DOMAIN template) \ (DOMAIN before) :
                  k \in DOMAIN after /\ after[k] = template[k]

\* C14: a clone expansion pass that completes leaves every attribute a clone
\* carried with the value it had, whatever that value is, and gives the
\* clone the template's value for every attribute it lacked; for nodes and
\* for instruments.
C14_CloneFirstWriteWins ==
    [][/\ (call'.op = "clone_nodes" /\ raised' = "" => FirstWriteWins("node"))
       /\ (call'.op = "clone_instruments" /\ raised' = "" => FirstWriteWins("instrument"))]_vars

\* Some object of objtype names a template that is not among the objects of
\* its type.
HasUnresolvedClone(objs, objtype) ==
    \E c \in DOMAIN get_type_assets(objs, objtype) :
        LET clone_rd == ObjGet(objs[objtype][c], "clone_rd")
        IN Truthy(clone_rd) /\ ~HasObject(objs, objtype, clone_rd.s)

\* C15: a clone expansion pass over a node, or an instrument, whose clone_rd
\* names an id that is not among the objects of its type raises an error and
\* the extraction aborts.
C15_UnresolvedCloneTargetFatal ==
    [][/\ (call'.op = "clone_nodes" /\ HasUnresolvedClone(ooi_objects, "node") =>
              raised' # "" /\ pc' = "aborted")
       /\ (call'.op = "clone_instruments" /\ HasUnresolvedClone(ooi_objects, "instrument") =>
              raised' # "" /\ pc' = "aborted")]_vars

\* clone_child(chdev) comes to a device that is not an instrument: chdev
\* itself, or a device below an instrument it copies.
RECURSIVE MeetsOther(_, _, _)
MeetsOther(objs, tree, chdev) ==
    \/ ~HasObject(objs, "instrument", chdev)
    \/ \E i \in 1..Len(Children(tree, chdev)) : MeetsOther(objs, tree, Children(tree, chdev)[i])

\* Some node clone has a template with a device below it that is not an
\* instrument.
HasUnclonableChild ==
    \E c \in Clones(ooi_objects, "node") :
        LET chdevs == Children(child_devices, ooi_objects["node"][c]["clone_rd"].s)
        IN \E i \in 1..Len(chdevs) : MeetsOther(ooi_objects, child_devices, chdevs[i])

\* C16: when the node clone pass comes to a child of a template that is a
\* node, or that is neither an instrument nor a node, it raises BadRequest:
\* the extraction aborts, no object is added to the nodes or the instruments,
\* the copies collected are dropped and the extraction is not marked as
\* completed.
C16_BadCloneChildFatal ==
    [][call'.op = "clone_nodes" /\ HasUnclonableChild =>
         /\ raised' = "BadRequest"
         /\ pc' = "aborted"
         /\ DOMAIN ooi_objects'["instrument"] = DOMAIN ooi_objects["instrument"]
         /\ DOMAIN ooi_objects'["node"] = DOMAIN ooi_objects["node"]
         /\ new_insts' = <<>>
         /\ ~extracted']_vars

\* The node clone pass has raised BadRequest at a node below a template that
\* also has an instrument below it.
C16_Witness ==
    /\ call.op = "clone_nodes"
    /\ raised = "BadRequest"
    /\ pc = "aborted"
    /\ ~extracted
    /\ \E c \in Clones(ooi_objects, "node") :
           LET chdevs == Children(child_devices, ooi_objects["node"][c]["clone_rd"].s)
           IN /\ \E i \in 1..Len(chdevs) : HasObject(ooi_objects, "node", chdevs[i])
              /\ \E i \in 1..Len(chdevs) : HasObject(ooi_objects, "instrument", chdevs[i])

\* C17: on a graph that holds nodes, instruments, classes and series, the
\* passes before and after clone expansion (D1000 objects, node type names,
\* subsite and site boxes, child devices, nodes, instruments, re-index)
\* complete without raising.
C17_PassesNeverAbort ==
    [][(/\ call'.op \in {"add_D1000", "nodetype_names", "ssites", "osites", "child_devices",
                         "nodes", "instruments", "reindex"}
        /\ {"node", "instrument", "class", "series"} \subseteq DOMAIN ooi_objects) =>
           raised' = "" /\ pc' # "aborted"]_vars

\* Every row of every category has been read.
AllRowsRead ==
    /\ FirstCategory(cat + 1) = 0
    /\ cat = 0 \/ pos = Len(files[Categories[cat]])

\* C18: the clone passes and the merge of the copies run only when every row
\* of every category has been read, and at most once in an extraction; until
\* the node clone pass no copy of an instrument exists; only the clone passes
\* change the platform agent type of a clone, which clones take from their
\* template, and only a row, the merge of the copies or a new extraction
\* changes which nodes and instruments exist; once an extraction has
\* completed, every further call of extract_ooi_assets leaves the graph, the
\* registry and the warnings log as they are and runs no pass.
C18_OneCloneExpansion ==
    [][/\ (call'.op \in {"clone_nodes", "clone_instruments", "reindex"} =>
              /\ AllRowsRead
              /\ ~extracted
              /\ pc = call'.op
              /\ pc' # pc)
       /\ (pc' \in {"parse", "add_D1000", "nodetype_names", "ssites", "osites", "child_devices",
                    "nodes", "instruments", "clone_nodes"} => new_insts' = <<>>)
       /\ (call'.op \notin {"clone_nodes", "clone_instruments"} =>
              \A t \in {"node", "instrument"} :
                 \A c \in Clones(ooi_objects, t) \cap Clones(ooi_objects', t) :
                    ObjGet(ooi_objects'[t][c], "platform_agent_type")
                        = ObjGet(ooi_objects[t][c], "platform_agent_type"))
       /\ (call'.op # "reindex" /\ call'.op # "parse" /\ call'.op # "extract" =>
              \A t \in {"node", "instrument"} :
                 DOMAIN get_type_assets(ooi_objects', t) = DOMAIN get_type_assets(ooi_objects, t))
       /\ (extracted =>
              /\ call'.op \in {"extract", "analyze"}
              /\ pc' = "done"
              /\ extracted')
       /\ (extracted /\ call'.op = "extract" =>
              /\ ooi_objects' = ooi_objects
              /\ ooi_obj_attrs' = ooi_obj_attrs
              /\ warnings' = warnings
              /\ pc' = "done"
              /\ extracted')]_vars

\* extract_ooi_assets has been called on an engine whose extraction has
\* completed with a copy of the template's instrument below the clone node.
C18_Witness ==
    /\ extracted
    /\ call.op = "extract"
    /\ pc = "done"
    /\ HasObject(ooi_objects, "instrument", "CE01ISSM-MF006-01-PPSDNA000")
    /\ ObjGet(ooi_objects["node"][CloneNode], "platform_agent_type") = Str("PA1")

PlatformOf(objs, ooi_id) == objs["node"][ooi_id]["platform_id"].s

FirstMappingRow(c, objtype) ==
    /\ c.op = "parse"
    /\ c.category = (IF objtype = "node" THEN "MAP:Nodes" ELSE "MAP:Instruments")
    /\ Get(c.row, "Ignore") # Str("Yes")
    /\ c.row["Reference ID"] # ""
    /\ ~HasAttr(ooi_objects, objtype, c.row["Reference ID"], "deployment_start")

\* The override a mapping row leaves: the pinned date when the row is
\* flagged push and names no clone, the date of the row otherwise.
OverrideOf(row, objtype) ==
    IF row["Push"] = "Yes" /\ ~Truthy(Get(row, "Clone"))
    THEN Str(IF objtype = "node" THEN "2019-01-01" ELSE "2019-02-01")
    ELSE Str(row[IF objtype = "node" THEN "Start Deployment Cruise" ELSE "First Deploy Date"])

\* The dates of objtype are resolved: SAF_deploy_date is the date of the
\* export, or 2020-01-01; deploy_date is the override when it is a date and
\* SAF_deploy_date otherwise.
DatesResolved(objtype) ==
    \A id \in DOMAIN get_type_assets(ooi_objects', objtype) :
        LET before == ooi_objects[objtype][id]
            after == ooi_objects'[objtype][id]
            exported ==
                IF objtype = "node" /\ ~Truthy(before["in_saf"])
                THEN ObjGet(ooi_objects["subsite"][Slice(id, 0, 8)], "First Deployment Date")
                ELSE ObjGet(before, "First Deployment Date")
        IN /\ after["SAF_deploy_date"] = ParseDate(exported, DEFAULT_MAX_DATE)
           /\ after["deploy_date"]
                  = ParseDate(ObjGet(before, "deployment_start"), after["SAF_deploy_date"])

\* C25: for nodes and instruments alike, the first mapping row of an object
\* leaves the pinned date as its override exactly when the row is flagged
\* push and names no clone, and the date of the row otherwise; the node pass
\* and the instrument pass resolve SAF_deploy_date and deploy_date from the
\* export, the override and the default.
C25_DeployDateResolution ==
    [][/\ \A objtype \in {"node", "instrument"} :
             FirstMappingRow(call', objtype) /\ raised' = "" =>
                ooi_objects'[objtype][call'.row["Reference ID"]]["deployment_start"]
                    = OverrideOf(call'.row, objtype)
       /\ (call'.op = "nodes" /\ raised' = "" => DatesResolved("node"))
       /\ (call'.op = "instruments" /\ raised' = "" => DatesResolved("instrument"))]_vars

\* The nodes and instruments directly below node_id in the child-device
\* index, as objects of the graph before the step.
ChildObjects(node_id) ==
    LET ch_nodes == Children(child_devices, node_id)
    IN {IF HasObject(ooi_objects, "node", ch_nodes[i]) THEN ooi_objects["node"][ch_nodes[i]]
        ELSE get_type_assets(ooi_objects, "instrument")[ch_nodes[i]] : i \in DOMAIN ch_nodes}

\* C26: the backfill of the node pass raises for no node, and the pass, when
\* it completes, gives a node lacking latitude, for
\* each of latitude, longitude and depth that is unset, the min and max of
\* that field over the child nodes and instruments directly below it that
\* carry a value; a field no child carries stays as it is. Stated for nodes
\* whose children all have a latitude, which the pass leaves as they are.
C26_NodeGeoBackfill ==
    [][call'.op = "nodes" =>
         /\ \A node_id \in DOMAIN get_type_assets(ooi_objects, "node") :
               NodeGeo(Done(ooi_objects), node_id, child_devices).exc = ""
         /\ raised' = "" =>
            \A node_id \in DOMAIN get_type_assets(ooi_objects, "node") :
               LET before == ooi_objects["node"][node_id]
                   after == ooi_objects'["node"][node_id]
                   Carrying(key) == {ch \in ChildObjects(node_id) : Truthy(ObjGet(ch, key))}
               IN (/\ ~Truthy(ObjGet(before, "latitude"))
                   /\ \A ch \in ChildObjects(node_id) : Truthy(ObjGet(ch, "latitude"))
                   /\ \A key \in {"latitude", "longitude", "depth_subsite"} :
                         \A ch \in Carrying(key) : IsNumber(ch[key])) =>
                  \A key \in {"latitude", "longitude", "depth_subsite"} :
                     ObjGet(after, key)
                         = IF ~Truthy(ObjGet(before, key)) /\ Carrying(key) # {}
                           THEN Str(MinMaxText({Signed(ch[key]) : ch \in Carrying(key)}))
                           ELSE ObjGet(before, key)]_vars

\* C28: the merge of the copied instruments replaces no instrument of the
\* graph: every instrument that exists before the merge keeps every
\* attribute it had.
C28_MergeKeepsExisting ==
    [][call'.op = "reindex" =>
         \A inst_id \in DOMAIN get_type_assets(ooi_objects, "instrument") :
            \A k \in DOMAIN ooi_objects["instrument"][inst_id] :
               /\ k \in DOMAIN ooi_objects'["instrument"][inst_id]
               /\ ooi_objects'["instrument"][inst_id][k] = ooi_objects["instrument"][inst_id][k]]_vars

\* The graph after the clone passes and the merge, and the ids of the copied
\* children, when nodes and instruments are visited in the given orders.
CloneExpansion(objs, tree, node_order, inst_order) ==
    LET nodes == CloneNodes([objs |-> objs, exc |-> "", insts |-> <<>>], node_order, tree)
        insts == CloneInstruments(Done(nodes.objs), inst_order)
    IN IF nodes.exc # "" THEN [exc |-> nodes.exc, objs |-> <<>>, children |-> {}]
       ELSE [exc |-> "",
             objs |-> Merge(insts.objs, nodes.insts),
             children |-> {nodes.insts[i]["id"].s : i \in DOMAIN nodes.insts}]

\* C29: for the graph the clone passes start from, the clones' attributes
\* and the set of copied children are the same for every order in which
\* nodes and instruments are visited.
C29_CloneOrderIndependent ==
    pc = "clone_nodes" =>
        Cardinality({CloneExpansion(ooi_objects, child_devices, node_order, inst_order) :
                        node_order \in KeyOrders(ooi_objects, "node"),
                        inst_order \in KeyOrders(ooi_objects, "instrument")}) = 1

(***************************************************************************)
(* SpecAgent: get_agent_code on the series and node types the parsers      *)
(* leave for a choice of rows.                                             *)
(***************************************************************************)
\* The rows of MAP:Series, MAP:NodeType and MAP:AgentMap the graphs are
\* parsed from. Of the three agent map entries the first matches no id below
\* CE01, the second and the third both match the ids below CE01ISSM.
AgentSeriesRows ==
    {<<>>,
     <<SeriesRow("PPSDN", "A", "Yes", "D1000", "Yes", "DART1", "")>>,
     <<SeriesRow("PPSDN", "A", "No", "NA", "No", "", "")>>}

AgentNodeTypeRows ==
    {<<>>} \cup
    {<<"Code" :> "MF" @@ "Name" :> "Mooring" @@ "Composite Name" :> "" @@ "PA Code" :> pa_code
       @@ "Platform Family" :> "" @@ "Platform Type" :> "">> : pa_code \in {"PA1", ""}}

AgentMapRows ==
    {<<>>,
     <<AgentMapRow("PPSDNA", "MF", "DART2", "CE02")>>,
     <<AgentMapRow("PPSDNA", "MF", "DART2", "CE02"),
       AgentMapRow("PPSDNA", "MF", "DART3", "CE01ISSM"),
       AgentMapRow("PPSDNA", "MF", "DART1", "CE01")>>}

\* The store after the series PPSDNA of the reports and the given mapping
\* rows have been parsed, in the order of the categories.
AgentStore(series_rows, nodetype_rows, map_rows) ==
    LET RECURSIVE Rows(_, _, _)
        Rows(st, category, rows) ==
            IF rows = <<>> THEN st
            ELSE Rows(CASE category = "MAP:NodeType" -> _parse_NodeType(st, Head(rows))
                        [] category = "MAP:Series" -> _parse_Series(st, Head(rows))
                        [] category = "MAP:AgentMap" -> _parse_AgentMap(st, Head(rows)),
                      category, Tail(rows))
        report == _parse_AttributeReportSeries(
                      [objs |-> <<>>, attrs |-> <<>>, warns |-> <<>>],
                      [Class |-> "PPSDN", Series |-> "A", Attribute |-> "Description",
                       AttributeValue |-> "Series A", Series_Name |-> "A"])
    IN Rows(Rows(Rows(report, "MAP:NodeType", nodetype_rows), "MAP:Series", series_rows),
            "MAP:AgentMap", map_rows)

InitAgent ==
    /\ \E series_rows \in AgentSeriesRows, nodetype_rows \in AgentNodeTypeRows,
          map_rows \in AgentMapRows :
          LET st == AgentStore(series_rows, nodetype_rows, map_rows) IN
          /\ ooi_objects = st.objs
          /\ ooi_obj_attrs = st.attrs
          /\ warnings = st.warns
    /\ call = [op |-> "init"]
    /\ raised = ""
    /\ applied = <<>>
    /\ files = NoFiles
    /\ pc = "done"
    /\ cat = 0
    /\ pos = 0
    /\ child_devices = <<>>
    /\ new_insts = <<>>
    /\ iteration = <<>>
    /\ extracted = TRUE
    /\ analysis = <<>>
    /\ resource_ds = <<>>

\* The identifiers get_agent_code is called with: instruments and nodes
\* below CE01ISSM, a cabled instrument and a cabled node, an instrument of a
\* series and a node of a type the graph lacks, and identifiers that name
\* neither an instrument nor a node.
AgentCodeIds ==
    {TemplateInst, TemplateNode, "RS01SLBS-MF005-01-PPSDNA000", "RS01SLBS-MF005",
     "CE01ISSM-MF005-01-CTDBPA000", "CE01ISSM-XX005",
     "CE01ISSM-MF005-01", "CE01ISSM", "PPSDNA", "DENSITY_L2", "mooring", ""}

\* get_agent_code(ooi_rd)
AgentCode ==
    /\ pc = "done"
    /\ \E ooi_rd \in AgentCodeIds :
          LET result == get_agent_code(ooi_objects, ooi_rd) IN
          /\ call' = [op |-> "get_agent_code", ooi_rd |-> ooi_rd, code |-> result.code]
          /\ raised' = result.exc
    /\ UNCHANGED <<ooi_objects, ooi_obj_attrs, warnings, applied, engine>>

SpecAgent == InitAgent /\ [][AgentCode]_vars

\* The series of an instrument id or the node type of a node id: the object
\* whose agent map get_agent_code reads; <<>> when the graph has none.
AgentOwner(objs, ooi_rd) ==
    LET objtype == IF ooi_rd.rd_subtype = "instrument" THEN "series" ELSE "nodetype"
        objid == IF ooi_rd.rd_subtype = "instrument" THEN ooi_rd.series_rd ELSE ooi_rd.node_type
    IN IF HasObject(objs, objtype, objid) THEN objs[objtype][objid] ELSE <<>>

\* The positions of the entries of the owner's agent map whose prefix is a
\* prefix of the id.
MatchingEntries(owner, rd) ==
    IF "agentmap" \notin DOMAIN owner THEN {}
    ELSE {i \in DOMAIN owner["agentmap"].items :
             StartsWith(rd, owner["agentmap"].items[i].items[2].s)}

\* get_agent_code has been called with an instrument or a node id.
AgentCodeAsked ==
    /\ call.op = "get_agent_code"
    /\ OOIReferenceDesignator(call.ooi_rd).rd_subtype \in {"instrument", "node"}

\* C22: get_agent_code for an instrument or node id returns a code: that of
\* the first entry, in row order, of the owner's agent map whose prefix is a
\* prefix of the id, and with no such entry the series' dart_code or ia_code
\* by is_dataagent, the node type's pa_code, or the synthesized default.
C22_AgentCodeResolution ==
    AgentCodeAsked =>
        LET ooi_rd == OOIReferenceDesignator(call.ooi_rd)
            owner == AgentOwner(ooi_objects, ooi_rd)
            matching == MatchingEntries(owner, call.ooi_rd)
            is_da == is_dataagent(ooi_rd)
        IN /\ raised = ""
           /\ call.code.k = "str" /\ call.code.s # ""
           /\ matching # {} =>
                 \E i \in matching :
                    /\ \A j \in matching : i <= j
                    /\ call.code = owner["agentmap"].items[i].items[1]
           /\ matching = {} /\ ooi_rd.rd_subtype = "instrument" =>
                 call.code = ObjGet(owner, IF is_da THEN "dart_code" ELSE "ia_code")
           /\ matching = {} /\ ooi_rd.rd_subtype = "node" =>
                 call.code = IF Truthy(ObjGet(owner, "pa_code")) THEN owner["pa_code"]
                             ELSE Str(IF is_da THEN "DART_" \o ooi_rd.node_type
                                      ELSE ooi_rd.node_type)

\* C23: get_agent_code with an identifier that names neither an instrument
\* nor a node raises BadRequest, and the call changes neither the graph nor
\* the warnings.
C23_AgentCodeBadRequest ==
    [][call'.op = "get_agent_code" =>
          /\ ooi_objects' = ooi_objects
          /\ ooi_obj_attrs' = ooi_obj_attrs
          /\ warnings' = warnings
          /\ (OOIReferenceDesignator(call'.ooi_rd).rd_subtype \notin {"instrument", "node"}
                 => raised' = "BadRequest" /\ call'.code = None)]_vars

\* get_agent_code has raised BadRequest for a subsite id and for a string
\* that is no designator.
C23_Witness ==
    /\ call.op = "get_agent_code"
    /\ call.ooi_rd \in {"CE01ISSM", "mooring"}
    /\ raised = "BadRequest"
    /\ ooi_objects # <<>>

(***************************************************************************)
(* SpecDelete: delete_ooi_assets on a choice of documents of the resources *)
(* datastore. A document is a dict of str; resource_ds holds, after the    *)
(* call, the documents as they are handed to update_doc_mult. The rows of  *)
(* _all_docs are dicts, so the isinstance test never skips one.            *)
(***************************************************************************)
ooi_asset_types ==
    {"InstrumentModel", "PlatformModel", "Observatory", "Subsite", "PlatformSite",
     "InstrumentSite", "InstrumentAgent", "InstrumentAgentInstance", "InstrumentDevice",
     "PlatformAgent", "PlatformAgentInstance", "PlatformDevice", "Deployment", "DataProduct"}

\* doc.clear(); doc.update(dict(_id=doc_id, _rev=doc_rev, _deleted=True))
Tombstone(doc) == "_id" :> doc["_id"] @@ "_rev" :> doc["_rev"] @@ "_deleted" :> "True"

\* The ids of the first loop's del_objs.
DelObjs(docs) ==
    {obj_id \in DOMAIN docs :
        /\ ~StartsWith(obj_id, "_design")
        /\ "type_" \in DOMAIN docs[obj_id]
        /\ docs[obj_id]["type_"] # ""
        /\ docs[obj_id]["type_"] \in ooi_asset_types}

\* delete_ooi_assets looking only at the object of an association.
delete_ooi_assets_ObjectOnly(docs) ==
    LET del_objs == DelObjs(docs)
        del_assocs == {obj_id \in DOMAIN docs :
                          /\ ~StartsWith(obj_id, "_design")
                          /\ "type_" \in DOMAIN docs[obj_id]
                          /\ docs[obj_id]["type_"] = "Association"
                          /\ docs[obj_id]["o"] \in del_objs}
    IN [obj_id \in DOMAIN docs |->
           IF obj_id \in del_objs \cup del_assocs THEN Tombstone(docs[obj_id])
           ELSE docs[obj_id]]

\* The documents after delete_ooi_assets.
delete_ooi_assets(docs) ==
    LET del_objs == DelObjs(docs)
        del_assocs == {obj_id \in DOMAIN docs :
                          /\ ~StartsWith(obj_id, "_design")
                          /\ "type_" \in DOMAIN docs[obj_id]
                          /\ docs[obj_id]["type_"] = "Association"
                          /\ (docs[obj_id]["o"] \in del_objs \/ docs[obj_id]["s"] \in del_objs)}
    IN [obj_id \in DOMAIN docs |->
           IF obj_id \in del_objs \cup del_assocs THEN Tombstone(docs[obj_id])
           ELSE docs[obj_id]]

\* A resource document and an association document.
Resource(id, type) == "_id" :> id @@ "_rev" :> "1-" \o id @@ "type_" :> type @@ "name" :> "n"

Association(id, s, o) ==
    "_id" :> id @@ "_rev" :> "2-" \o id @@ "type_" :> "Association" @@ "s" :> s @@ "o" :> o
    @@ "p" :> "hasDevice"

\* The documents each id may hold; an id may also be absent.
Documents ==
    "r1" :> ({Resource("r1", type) : type \in {"InstrumentDevice", "Org", ""}}
             \cup {"_id" :> "r1" @@ "_rev" :> "1-r1"})
    @@ "r2" :> {Resource("r2", type) : type \in {"Deployment", "UserInfo"}}
    @@ "_design/x" :> {"_id" :> "_design/x" @@ "_rev" :> "1-x" @@ "views" :> "v",
                       Resource("_design/x", "Deployment")}
    @@ "a1" :> {Association("a1", s, o) : s \in {"r1", "r2", "zz"}, o \in {"r2", "_design/x"}}
    @@ "a2" :> {Association("a2", "a1", "r1")}

DocumentSets ==
    UNION {{docs \in [ids -> UNION {Documents[id] : id \in DOMAIN Documents}] :
                \A id \in ids : docs[id] \in Documents[id]} : ids \in SUBSET DOMAIN Documents}

InitDelete ==
    /\ ooi_objects = <<>>
    /\ ooi_obj_attrs = <<>>
    /\ warnings = <<>>
    /\ call = [op |-> "init"]
    /\ raised = ""
    /\ applied = <<>>
    /\ files = NoFiles
    /\ pc = "idle"
    /\ cat = 0
    /\ pos = 0
    /\ child_devices = <<>>
    /\ new_insts = <<>>
    /\ iteration = <<>>
    /\ extracted = FALSE
    /\ analysis = <<>>
    /\ resource_ds \in DocumentSets

\* delete_ooi_assets()
Delete ==
    /\ resource_ds' = delete_ooi_assets(resource_ds)
    /\ call' = [op |-> "delete_ooi_assets"]
    /\ raised' = ""
    /\ UNCHANGED <<ooi_objects, ooi_obj_attrs, warnings, applied, files, pc, cat, pos,
                   child_devices, new_insts, iteration, extracted, analysis>>

SpecDelete == InitDelete /\ [][Delete]_vars

\* The declared type of a document, "" when it declares none.
DeclaredType(doc) == IF "type_" \in DOMAIN doc THEN doc["type_"] ELSE ""

\* C24: delete_ooi_assets tombstones a document exactly when it is no design
\* document and its type is an OOI asset type, or it is an Association whose
\* subject or object is such a document; a tombstone has the _id and _rev of
\* the document and the deleted marker and nothing else; every other
\* document, design documents among them, is unchanged.
C24_DeletionDecision ==
    [][call'.op = "delete_ooi_assets" =>
          LET Asset(id) == /\ id \in DOMAIN resource_ds
                           /\ ~StartsWith(id, "_design")
                           /\ DeclaredType(resource_ds[id]) \in ooi_asset_types
              Dependent(id) == /\ ~StartsWith(id, "_design")
                               /\ DeclaredType(resource_ds[id]) = "Association"
                               /\ (Asset(resource_ds[id]["s"]) \/ Asset(resource_ds[id]["o"]))
          IN /\ DOMAIN resource_ds' = DOMAIN resource_ds
             /\ \A id \in DOMAIN resource_ds :
                   IF Asset(id) \/ Dependent(id)
                   THEN /\ DOMAIN resource_ds'[id] = {"_id", "_rev", "_deleted"}
                        /\ resource_ds'[id]["_id"] = resource_ds[id]["_id"]
                        /\ resource_ds'[id]["_rev"] = resource_ds[id]["_rev"]
                        /\ resource_ds'[id]["_deleted"] = "True"
                   ELSE resource_ds'[id] = resource_ds[id]]_vars

\* After a deletion: a tombstoned resource, an association tombstoned for
\* its subject alone, and a design document of an asset type left as it was.
C24_Witness ==
    /\ call.op = "delete_ooi_assets"
    /\ DOMAIN resource_ds = {"r1", "r2", "_design/x", "a1", "a2"}
    /\ "_deleted" \in DOMAIN resource_ds["r1"]
    /\ "_deleted" \notin DOMAIN resource_ds["r2"]
    /\ "_deleted" \in DOMAIN resource_ds["a1"]
    /\ resource_ds["_design/x"] = Resource("_design/x", "Deployment")
    /\ "_deleted" \in DOMAIN resource_ds["a2"]

(***************************************************************************)
(* The report of analyze_ooi_assets                                        *)
(***************************************************************************)
\* The keys of an adjacency that list themselves among their children.
SelfChildren(tree) == {p \in DOMAIN tree : p.k = "str" /\ p.s \in Range(tree[p])}

\* C21 (child-device index): the index _get_child_devices builds never lists
\* a node below itself.
C21_ChildIndexNoSelfChild == SelfChildren(child_devices) = {}

\* C21: no node is listed as its own child, neither in the child-device
\* index of the post-processing nor in platform_children, the adjacency the
\* node pass of analyze_ooi_assets builds.
C21_NoSelfChild ==
    [][/\ SelfChildren(child_devices') = {}
       /\ call'.op = "analyze" => SelfChildren(call'.platform_children) = {}]_vars

\* The lines of a report that are about a platform or a child node.
NodeLinesOf(report) == {i \in DOMAIN report : report[i].line \in {"platform", "node"}}

\* A report with no node on two of its lines.
EmittedOnce(report) ==
    \A i, j \in NodeLinesOf(report) : report[i].id = report[j].id => i = j

\* The instruments of the graph objs below the nodes a report has a line for.
AttachedInstruments(objs, report) ==
    {inst_id \in DOMAIN get_type_assets(objs, "instrument") :
        \E i \in NodeLinesOf(report) : report[i].id = OOIReferenceDesignator(inst_id).node_rd}

\* The partition a completed analysis with the cutoff end_date has to show:
\* one line and one count per attached instrument, deployed up to the
\* cutoff and postponed after it.
Partitioned(objs, end_date, assigned) ==
    LET report == assigned["asset_report"]
        counts == assigned["_asset_counts"]
        attached == AttachedInstruments(objs, report)
        Late(inst_id) == /\ Truthy(end_date)
                         /\ objs["instrument"][inst_id]["deploy_date"].n > end_date.n
    IN /\ \A inst_id \in attached :
             /\ Cardinality({i \in DOMAIN report : /\ report[i].line = "instrument"
                                                   /\ report[i].id = inst_id}) = 1
             /\ \A i \in DOMAIN report :
                   report[i].line = "instrument" /\ report[i].id = inst_id
                      => report[i].postponed = Late(inst_id)
       /\ Truthy(end_date) =>
             /\ counts.instd = Cardinality({inst_id \in attached : ~Late(inst_id)})
             /\ counts.insti = Cardinality({inst_id \in attached : Late(inst_id)})
       /\ counts.instd = Cardinality(assigned["deploy_instruments"])
       /\ ~Truthy(end_date) => counts.insti = 0

\* C27: in a completed analysis every instrument below an emitted node is
\* counted exactly once, as deployed when its deploy date is on or before
\* the cutoff and as postponed otherwise; the deployed counter is the size of
\* deploy_instruments, and without a cutoff nothing is postponed.
C27_DeployedPostponedPartition ==
    [][call'.op = "analyze" /\ raised' = ""
          => Partitioned(ooi_objects', call'.end_date, analysis')]_vars

\* C27 (each node emitted once): the partition holds in every completed
\* analysis whose report has no node on two lines.
C27_PartitionWhenEmittedOnce ==
    [][call'.op = "analyze" /\ raised' = "" /\ EmittedOnce(analysis'["asset_report"])
          => Partitioned(ooi_objects', call'.end_date, analysis')]_vars

\* C30: the walk of the report ends without exhausting the recursion, and a
\* completed report has no node on two lines.
C30_WalkTerminatesEmittingOnce ==
    [][call'.op = "analyze" /\ call'.passes = ""
          => /\ raised' # "RuntimeError"
             /\ raised' = "" => EmittedOnce(analysis'["asset_report"])]_vars

====
